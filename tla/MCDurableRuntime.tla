-------------------------- MODULE MCDurableRuntime --------------------------
(***************************************************************************)
(* Small instances of DurableRuntime for TLC.                              *)
(***************************************************************************)
EXTENDS RuntimeInvariants, TLC

\* Every job may be tried once, twice or three times.
MCOnce == [j \in Jobs |-> 1]
MCTwice == [j \in Jobs |-> 2]
MCThrice == [j \in Jobs |-> 3]

\* Worker processes are alike; used where no liveness is checked.
MCSymmetry == Permutations(Workers)

\* Of two turns only the earlier, on which the later waits, is canceled: keeps
\* the instance with two jobs within minutes.
MCFirstCanceled == ~job[2].cancel
=============================================================================
