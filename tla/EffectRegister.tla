--------------------------- MODULE EffectRegister ---------------------------
(***************************************************************************)
(* What the side-effect store promises the owner of a token: the effect of *)
(* a token is claimed once, by one owner for one purpose; it is done at    *)
(* most once, with one piece of evidence; and readers hear of it only      *)
(* after it was done.  Nothing is said about attempts that end, about the  *)
(* outbox or about the log of events.                                      *)
(***************************************************************************)
CONSTANTS
    Tokens,   \* what effects are identified by
    Claims,   \* who claims an effect, and what for
    Proofs    \* evidence that an effect was done

VARIABLES
    claim,      \* the claims of each token: none or one
    proof,      \* the evidence of each token: none or one
    announced   \* the tokens whose effect its readers know

registerVars == <<claim, proof, announced>>

RegisterInit ==
    /\ claim = [t \in Tokens |-> {}]
    /\ proof = [t \in Tokens |-> {}]
    /\ announced = {}

Take(t, c) ==
    /\ claim[t] = {}
    /\ claim' = [claim EXCEPT ![t] = {c}]
    /\ UNCHANGED <<proof, announced>>

Do(t, p) ==
    /\ claim[t] # {}
    /\ proof[t] = {}
    /\ proof' = [proof EXCEPT ![t] = {p}]
    /\ UNCHANGED <<claim, announced>>

\* An effect that consists of its announcement is taken and done at once.
TakeAndDo(t, c, p) ==
    /\ claim[t] = {}
    /\ claim' = [claim EXCEPT ![t] = {c}]
    /\ proof' = [proof EXCEPT ![t] = {p}]
    /\ UNCHANGED announced

Announce(t) ==
    /\ proof[t] # {}
    /\ announced' = announced \cup {t}
    /\ UNCHANGED <<claim, proof>>

RegisterNext ==
    \E t \in Tokens :
      \/ \E c \in Claims : Take(t, c)
      \/ \E p \in Proofs : Do(t, p)
      \/ \E c \in Claims, p \in Proofs : TakeAndDo(t, c, p)
      \/ Announce(t)

RegisterSpec == RegisterInit /\ [][RegisterNext]_registerVars
=============================================================================
