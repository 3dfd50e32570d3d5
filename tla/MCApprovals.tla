---------------------------- MODULE MCApprovals ----------------------------
(***************************************************************************)
(* A small instance of Approvals for TLC: two jobs of one session; two     *)
(* actions of the first job's run that share their action and their scope, *)
(* with different previews; and one operation that an adapter relays.      *)
(***************************************************************************)
EXTENDS ApprovalProperties, TLC

CONSTANTS j1, j2, start1, start2, patch1, patch2, relay, Absent

MCOperations == {start1, start2, patch1, patch2, relay}
MCJobs == {j1, j2}
MCSpawnOf == [j \in MCJobs |-> IF j = j1 THEN start1 ELSE start2]

MCActionOf == [o \in MCOperations |->
    CASE o \in {start1, start2} -> "process.spawn"
      [] o \in {patch1, patch2} -> "git.apply"
      [] o = relay -> "mcp.tool.call"]

InSession(run, j) == [job |-> j, run |-> run, session |-> "s", project |-> "p"]

MCScopeOf == [o \in MCOperations |->
    CASE o \in {start1, patch1, patch2} -> InSession("run1", j1)
      [] o = start2 -> InSession("run2", j2)
      [] o = relay -> [job |-> Absent, run |-> Absent, session |-> "s", project |-> "p"]]

MCBindingOf == [o \in MCOperations |->
    IF o \in {start1, start2} THEN Absent ELSE o]

\* The callers are interchangeable; no liveness is checked.
CallersAlike == Permutations(Callers)
=============================================================================
