---------------------------- MODULE MCSideEffects ----------------------------
(***************************************************************************)
(* A small instance of SideEffects for TLC: two attempts of one job, and   *)
(* one of another job that was given the same token.                       *)
(***************************************************************************)
EXTENDS SideEffectProperties

CONSTANTS a1, a2, a3, j1, j2, t1

MCJobOf == [a \in Attempts |-> IF a = a3 THEN j2 ELSE j1]
MCTokenOf == [j \in Jobs |-> t1]
=============================================================================
