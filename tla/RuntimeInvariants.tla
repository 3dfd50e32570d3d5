-------------------------- MODULE RuntimeInvariants --------------------------
(***************************************************************************)
(* The facts about DurableRuntime on which its safety rests and that no    *)
(* single transaction checks: together with TypeOK they are inductive.     *)
(***************************************************************************)
EXTENDS RuntimeProperties

Exists(a) == a[2] <= made[a[1]]
EntryExists(e) == e.number <= made[e.job]

(***************************************************************************)
(* Nobody remembers an attempt that was never inserted: not the attempts   *)
(* table, not the outbox, and not the rows a worker has read (claim,       *)
(* recovery, scan, drain).  Attempt numbers only grow (_claim_candidate).  *)
(***************************************************************************)
TaskRefersToRows(w) ==
    /\ task[w].pc \in HoldPc => Exists(task[w].id)
    /\ At(w, "recovering") => \A a \in task[w].ids : Exists(a)
    /\ task[w].pc \in {"scanning", "ending", "judging", "repairing"} =>
         \A r \in task[w].rows : Exists(r.id)
    /\ task[w].pc \in {"ending", "judging", "repairing"} => Exists(task[w].row.id)
    /\ task[w].pc \in {"draining", "applying", "settling"} =>
         \A e \in task[w].entries : EntryExists(e)
    /\ task[w].pc \in {"applying", "settling"} =>
         task[w].number <= made[task[w].entry.job]

RowsExist ==
    /\ \A j \in Jobs, n \in Numbers : attempt[j][n].status # "none" => n <= made[j]
    /\ \A e \in outbox : EntryExists(e)
    /\ \A w \in Workers : TaskRefersToRows(w)

(***************************************************************************)
(* What the status of a job says about its past: a job that still waits    *)
(* for its dispatch never ran; one on offer again, or started twice, is    *)
(* retry-safe; and only such a job's attempts carry a safe class.          *)
(***************************************************************************)
History ==
    \A j \in Jobs :
      /\ job[j].status \in WaitingJob \cup {"none"} => made[j] = 0
      /\ job[j].status \in {"queued", "retry_wait"} /\ made[j] > 0 => j \in SafeJobs
      /\ made[j] > 1 => j \in SafeJobs
      /\ \A n \in Numbers : attempt[j][n].class = "safe" => j \in SafeJobs

(***************************************************************************)
(* A claimed attempt is held by the worker that claimed it.                *)
(***************************************************************************)
OneHolder ==
    \A v, w \in Workers :
      /\ task[v].pc \in HoldPc
      /\ task[w].pc \in HoldPc
      /\ task[v].id = task[w].id
      => v = w

(***************************************************************************)
(* Jobs are submitted in their order, and a candidate that a worker holds  *)
(* was found when every earlier turn had been started or had ended.  That  *)
(* stays so: only a job that was started leaves its end.  So however old   *)
(* the candidate, the claim keeps the turns in order.                      *)
(***************************************************************************)
Settled(i) == made[i] > 0 \/ IsTerminal(i)

Turns ==
    /\ \A i, j \in Jobs : i < j /\ job[j].status # "none" => job[i].status # "none"
    /\ \A w \in Workers : At(w, "candidate") /\ task[w].job \in Interactive =>
         \A i \in Interactive : i < task[w].job => Settled(i)
    /\ TurnsStartInOrder

(***************************************************************************)
(* The two stores, as long as leases do not lapse under living workers.    *)
(* A web request still has its second or third step to do only for a job   *)
(* that never ran and never will.                                          *)
(***************************************************************************)
EndpointsInv ==
    \A j \in Jobs :
      /\ endpoint[j] # "none" => made[j] = 0 /\ (job[j].cancel \/ IsTerminal(j))
      /\ endpoint[j] = "run" => IsTerminal(j)

(***************************************************************************)
(* A run record is written with the submission, or by the attempt it is    *)
(* the record of; and a job is allowed another attempt beyond MaxAttempts  *)
(* only by the operator, after the last one.                               *)
(***************************************************************************)
FreshRun(j, n) == run[j][n] = IF n = 1 THEN "queued" ELSE "none"

RunsInv ==
    \A j \in Jobs :
      /\ job[j].status = "none" => run[j][1] = "none"
      /\ made[j] = 0 /\ job[j].status \notin TerminalJob \cup {"none"} => FreshRun(j, 1)
      /\ \A n \in Numbers : n > 1 /\ n > made[j] => FreshRun(j, n)

WithinBudget(j) ==
    \/ job[j].max <= MaxAttempts[j]
    \/ job[j].max <= made[j]
    \/ made[j] > 0 /\ job[j].max = made[j] + 1 /\ IsOver(j, made[j])

(***************************************************************************)
(* An entry names no attempt only if the job never had one, nor will.      *)
(***************************************************************************)
InHand(w) ==
    CASE At(w, "draining") -> task[w].entries
      [] task[w].pc \in {"applying", "settling"} -> task[w].entries \cup {task[w].entry}
      [] OTHER -> {}

NeverRan(j) == made[j] = 0 /\ IsTerminal(j)

EntriesInv ==
    /\ \A e \in outbox : e.number = 0 => NeverRan(e.job)
    /\ \A w \in Workers : \A e \in InHand(w) : e.number = 0 => NeverRan(e.job)

(***************************************************************************)
(* Whoever acts on the end of a run knows a run record that has ended: the *)
(* worker that reports it, the reconciler that passes it on to attempt and *)
(* job, and the drain that removes the entry.                              *)
(***************************************************************************)
RunOver(j, n) == run[j][n] \in TerminalRun

KnowsEnd(w) ==
    /\ task[w].pc \in OutcomePc => RunOver(task[w].id[1], task[w].id[2])
    /\ task[w].pc \in {"ending", "judging", "repairing"} =>
         RunOver(task[w].row.id[1], task[w].row.id[2])
    /\ task[w].pc \in {"applying", "settling"} => task[w].number = task[w].entry.number
    /\ At(w, "settling") /\ task[w].number > 0 =>
         RunOver(task[w].entry.job, task[w].number)

(***************************************************************************)
(* A worker that has not begun its run holds an open attempt, whose run    *)
(* record is as it was at the claim and that no entry names.               *)
(***************************************************************************)
BeforeRun == {"claimed", "classed", "started"}

NamesFirst(j, e) == e.job = j /\ e.number = 1

WillBegin(w) ==
    task[w].pc \in BeforeRun =>
      LET j == task[w].id[1]
          n == task[w].id[2]
      IN  /\ IsLive(j, n)
          /\ FreshRun(j, n)
          /\ n = 1 => /\ \A e \in outbox : ~NamesFirst(j, e)
                     /\ \A v \in Workers : \A e \in InHand(v) : ~NamesFirst(j, e)

(***************************************************************************)
(* What a living worker holds is neither expired nor about to be recovered.*)
(***************************************************************************)
LeaseKept(w) ==
    task[w].pc \in HoldPc =>
      /\ ~attempt[task[w].id[1]][task[w].id[2]].expired
      /\ \A v \in Workers : At(v, "recovering") => task[w].id \notin task[v].ids

(***************************************************************************)
(* The run record of a job's last attempt has ended or was never opened,   *)
(* or an entry names it, or the attempt is open, or recovery put it off    *)
(* for another one.                                                        *)
(***************************************************************************)
Synced(j, n) ==
    \/ run[j][n] \in TerminalRun \cup {"none"}
    \/ \E e \in outbox : e.job = j /\ e.number = n
    \/ IsLive(j, n)
    \/ PutOff(j, n) /\ IF n = 1 THEN ~IsTerminal(j) ELSE MaxAttempts[j] > 2

SyncedInv == \A j \in Jobs : made[j] > 0 => Synced(j, made[j])

StoresInv ==
    /\ EndpointsInv
    /\ RunsInv
    /\ \A j \in Jobs : WithinBudget(j)
    /\ EntriesInv
    /\ \A w \in Workers : KnowsEnd(w) /\ WillBegin(w) /\ LeaseKept(w)
    /\ SyncedInv

RuntimeInv ==
    /\ TypeOK
    /\ RowsExist
    /\ History
    /\ OneHolder
    /\ Turns
    /\ ~LeaseSlips => StoresInv
=============================================================================
