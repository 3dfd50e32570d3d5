----------------------------- MODULE MCSchedules ----------------------------
(***************************************************************************)
(* Small schedules for TLC.                                                *)
(***************************************************************************)
EXTENDS ScheduleProperties, TLC

\* Two instants, left alone.
MCTwoInstants == <<"schedule", "schedule">>

\* A test, and nothing else.
MCTestOnly == <<"test">>

\* Safety only: the workers are alike.
MCSymmetry == Permutations(Workers)
=============================================================================
