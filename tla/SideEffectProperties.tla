------------------------ MODULE SideEffectProperties ------------------------
(***************************************************************************)
(* What the side-effect store is for, and the register it implements.      *)
(***************************************************************************)
EXTENDS SideEffects

\* A token has an owner and a purpose as soon as it is reserved, and
\* evidence exactly when it is completed.
Coherent(row) ==
    /\ row.status = "none" => row = Unused
    /\ row.status # "none" => row.owner # Nobody /\ row.operation # "none"
    /\ row.status = "completed" <=> row.evidence # "none"

(***************************************************************************)
(* Types, and coherent rows: completion always comes with evidence.        *)
(***************************************************************************)
EffectTypeOK ==
    /\ life \in [Attempts -> Life]
    /\ answer \in [Attempts -> Answer]
    /\ effect \in [Tokens -> EffectRow]
    /\ \A t \in Tokens : Coherent(effect[t])
    /\ pending \subseteq Tokens
    /\ log \in [Tokens -> Nat]
    /\ drain \in [Reconcilers -> DrainTask]
    /\ mishaps \in 0 .. MishapBound

(***************************************************************************)
(* A worker that goes on to its run has its marker: whether created by its *)
(* own attempt or taken over from an attempt that was lost, the token is   *)
(* bound to its job and completed (worker.py: the marker is recorded       *)
(* before run_in_session, and a reservation left behind blocks).           *)
(***************************************************************************)
RunsWithEvidence ==
    \A a \in Attempts :
      answer[a] \in {"created", "reused"} =>
        LET t == TokenOf[JobOf[a]] IN
          /\ effect[t].status = "completed"
          /\ Bound(t, JobOf[a], "marker")
          /\ answer[a] = "created" => effect[t].owner = a

(***************************************************************************)
(* No event is lost: once its effect is recorded, the entry is pending or  *)
(* the log has the event, whatever becomes of the reconcilers between      *)
(* reading, appending and marking.                                         *)
(***************************************************************************)
EventNotLost ==
    \A t \in Tokens : effect[t].evidence = "event" => t \in pending \/ log[t] > 0

(***************************************************************************)
(* Reading the log before appending bounds what crashes and retries can    *)
(* do: only reconcilers that read it before the first append add a copy.   *)
(***************************************************************************)
CopiesBounded == \A t \in Tokens : log[t] <= Cardinality(Reconcilers)

(***************************************************************************)
(* An incomplete reservation fails closed: when the attempt that reserved  *)
(* the token has ended, nobody ever completes it or takes it over.         *)
(***************************************************************************)
AmbiguousStays ==
    [][\A t \in Tokens :
         effect[t].status = "reserved" /\ life[effect[t].owner] = "over"
           => effect'[t] = effect[t]]_effectVars

(***************************************************************************)
(* Every recorded event arrives in the log, once crashes and failures end. *)
(***************************************************************************)
EventArrives == \A t \in Tokens : effect[t].evidence = "event" ~> log[t] > 0

-----------------------------------------------------------------------------
(***************************************************************************)
(* The store implements a register per token that is written once and      *)
(* announced afterwards.                                                   *)
(***************************************************************************)
ClaimOf(t) == IF effect[t].status = "none" THEN {}
              ELSE {<<effect[t].owner, effect[t].operation>>}
ProofOf(t) == IF effect[t].status = "completed" THEN {effect[t].evidence} ELSE {}

Register ==
    INSTANCE EffectRegister
      WITH Claims <- Attempts \X (Operations \cup {"marker"}),
           Proofs <- Evidence \cup {"event"},
           claim <- [t \in Tokens |-> ClaimOf(t)],
           proof <- [t \in Tokens |-> ProofOf(t)],
           announced <- {t \in Tokens : log[t] > 0}

ImplementsRegister == Register!RegisterSpec

=============================================================================
