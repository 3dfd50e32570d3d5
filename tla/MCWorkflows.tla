---------------------------- MODULE MCWorkflows -----------------------------
(***************************************************************************)
(* Small workflows for TLC.                                                *)
(***************************************************************************)
EXTENDS WorkflowProperties

\* A join that is defined before what it waits for, an agent, an approval
\* whatever came of it, and an evaluation if it failed.
MCMixedKind == <<"local", "agent", "approval", "batch">>
MCMixedDeps == <<{3, 4}, {}, {2}, {2}>>
MCMixedCondition == <<"on_success", "on_success", "always", "on_failure">>

\* Two agents, one after the other.
MCChainKind == <<"agent", "agent">>
MCChainDeps == <<{}, {1}>>
MCChainCondition == <<"on_success", "on_success">>

MCActionOf == [s \in Steps |-> "external_write"]
=============================================================================
