------------------------------ MODULE MCNative ------------------------------
(***************************************************************************)
(* One process with a few chunks of output, for TLC.                       *)
(***************************************************************************)
EXTENDS NativeProperties
=============================================================================
