-------------------------- MODULE SideEffectProofs --------------------------
(***************************************************************************)
(* Safety of the side-effect store for any number of attempts, tokens and  *)
(* reconcilers.                                                            *)
(***************************************************************************)
EXTENDS SideEffectProperties, FiniteSetTheorems, TLAPS

USE JobOfAssumption, TokenOfAssumption, NobodyAssumption, NamesAssumption,
    BoundAssumption

-----------------------------------------------------------------------------
(***************************************************************************)
(* The inductive invariant.  Known: entries are made with completed rows   *)
(* and reconcilers know no others.  Written: who is about to mark an entry *)
(* has seen or written its event.                                          *)
(***************************************************************************)
Events == {t \in Tokens : effect[t].evidence = "event"}

Known ==
    /\ pending \subseteq Events
    /\ \A r \in Reconcilers :
         /\ ~At(r, "resting") => drain[r].todo \subseteq Events
         /\ drain[r].pc \in {"appending", "marking"} => drain[r].entry \in Events

Written == \A r \in Reconcilers : At(r, "marking") => log[drain[r].entry] > 0

EffectInv ==
    /\ EffectTypeOK
    /\ Known
    /\ Written
    /\ RunsWithEvidence
    /\ EventNotLost

(***************************************************************************)
(* Types and row coherence are kept by every step, for every constant.     *)
(***************************************************************************)
LEMMA InitTypes == Init => EffectTypeOK
  BY DEF Init, EffectTypeOK, Coherent, Life, Answer, EffectRow, Unused,
         DrainTask, Resting

LEMMA StepTypes == EffectTypeOK /\ [Next]_effectVars => EffectTypeOK'
<1> SUFFICES ASSUME EffectTypeOK, [Next]_effectVars
             PROVE  EffectTypeOK'
    OBVIOUS
<1> USE DEF EffectTypeOK, Life, Answer
<1>0. ASSUME NEW t \in Tokens, NEW row \in EffectRow, Coherent(row),
             effect' = [effect EXCEPT ![t] = row]
      PROVE  /\ effect' \in [Tokens -> EffectRow]
             /\ \A u \in Tokens : Coherent(effect'[u])
      BY <1>0
<1>1. CASE UNCHANGED effectVars
      BY <1>1 DEF effectVars
<1>2. ASSUME NEW a \in Attempts, Effects(a)
      PROVE  EffectTypeOK'
  <2>1. CASE Start(a)
        BY <2>1 DEF Start
  <2>2. CASE End(a)
        BY <2>2 DEF End
  <2>3. ASSUME NEW t \in Tokens, NEW op \in Operations \cup {"marker"},
               Reserve(a, t, op)
        PROVE  EffectTypeOK'
    <3>1. Reserved(a, op) \in EffectRow /\ Coherent(Reserved(a, op))
          BY DEF Reserved, EffectRow, Coherent
    <3> QED BY <1>0, <2>3, <3>1 DEF Reserve
  <2>4. ASSUME NEW t \in Tokens, NEW e \in Evidence, Complete(a, t, e)
        PROVE  EffectTypeOK'
    <3> DEFINE row == [effect[t] EXCEPT !.status = "completed", !.evidence = e]
    <3>1. effect[t] \in EffectRow /\ Coherent(effect[t])
          OBVIOUS
    <3>2. row \in EffectRow /\ Coherent(row)
          BY <2>4, <3>1 DEF Complete, EffectRow, Coherent
    <3>3. effect' = [effect EXCEPT ![t] = row]
          BY <2>4 DEF Complete
    <3> QED BY <1>0, <2>4, <3>2, <3>3 DEF Complete
  <2>5. CASE EnqueueMarker(a)
    <3> DEFINE t == TokenOf[JobOf[a]]
    <3>1. t \in Tokens
          OBVIOUS
    <3>2. CASE Record(a, t)
      <4>1. Recorded(a) \in EffectRow /\ Coherent(Recorded(a))
            BY DEF Recorded, EffectRow, Coherent
      <4> QED BY <1>0, <2>5, <3>1, <3>2, <4>1 DEF EnqueueMarker, Record, Tell
    <3>3. CASE Reuse(a, t) \/ Blocked(a, t) \/ Conflict(a, t)
          BY <2>5, <3>3 DEF EnqueueMarker, Reuse, Blocked, Conflict, Tell
    <3> QED BY <2>5, <3>2, <3>3 DEF EnqueueMarker
  <2>6. CASE RefuseMarker(a)
        BY <2>6 DEF RefuseMarker, Tell
  <2> QED BY <1>2, <2>1, <2>2, <2>3, <2>4, <2>5, <2>6 DEF Effects
<1>3. ASSUME NEW r \in Reconcilers, Deliver(r) \/ FailEntry(r) \/ Crash(r)
      PROVE  EffectTypeOK'
  <2>0. drain[r] \in DrainTask
        OBVIOUS
  <2>1. CASE StartDrain(r)
        BY <2>1 DEF StartDrain, Goto, DrainTask
  <2>2. ASSUME NEW t \in Tokens, ReadLog(r, t)
        PROVE  EffectTypeOK'
    <3>1. drain[r].todo \in SUBSET Tokens
          BY <2>0, <2>2 DEF ReadLog, At, DrainTask, Resting
    <3> QED BY <2>2, <3>1 DEF ReadLog, Goto, DrainTask
  <2>3. CASE AppendEvent(r)
    <3>1. drain[r].entry \in Tokens /\ [drain[r] EXCEPT !.pc = "marking"] \in DrainTask
          BY <2>0, <2>3 DEF AppendEvent, At, DrainTask, Resting
    <3> QED BY <2>3, <3>1 DEF AppendEvent, Goto
  <2>4. CASE MarkProcessed(r)
    <3>1. drain[r].todo \in SUBSET Tokens
          BY <2>0, <2>4 DEF MarkProcessed, At, DrainTask, Resting
    <3> QED BY <2>4, <3>1 DEF MarkProcessed, Goto, DrainTask
  <2>5. CASE EndDrain(r)
        BY <2>5 DEF EndDrain, Goto, DrainTask
  <2>6. CASE FailEntry(r)
    <3>1. drain[r].todo \in SUBSET Tokens
          BY <2>0, <2>6 DEF FailEntry, DrainTask, Resting
    <3> QED BY <2>6, <3>1 DEF FailEntry, Goto, DrainTask
  <2>7. CASE Crash(r)
        BY <2>7 DEF Crash, Goto, DrainTask
  <2> QED BY <1>3, <2>1, <2>2, <2>3, <2>4, <2>5, <2>6, <2>7 DEF Deliver
<1> QED BY <1>1, <1>2, <1>3 DEF Next

(***************************************************************************)
(* The side-effect rows are well-formed in every reachable state.          *)
(***************************************************************************)
THEOREM EffectTypes == Spec => []EffectTypeOK
<1>1. Init => EffectTypeOK
      BY InitTypes
<1>2. EffectTypeOK /\ [Next]_effectVars => EffectTypeOK'
      BY StepTypes
<1> QED BY <1>1, <1>2, PTL DEF Spec

-----------------------------------------------------------------------------
(***************************************************************************)
(* What a step of an attempt and one of a reconciler may change.           *)
(***************************************************************************)

\* A row that is completed is never written again, and a new event comes with
\* its outbox entry.
LEMMA AttemptStep ==
  ASSUME EffectTypeOK, NEW a \in Attempts, Effects(a)
  PROVE  /\ UNCHANGED <<log, drain>>
         /\ pending \subseteq pending'
         /\ \A t \in Tokens : effect[t].status = "completed" => effect'[t] = effect[t]
         /\ \A t \in Tokens :
              t \in Events' \ Events => t \in pending'
         /\ pending' \ pending \subseteq Events'
<1> USE DEF EffectTypeOK
<1>1. CASE Start(a) \/ End(a) \/ RefuseMarker(a)
      BY <1>1 DEF Start, End, RefuseMarker, Events
<1>2. ASSUME NEW u \in Tokens, NEW op \in Operations \cup {"marker"},
             Reserve(a, u, op)
      PROVE  /\ UNCHANGED <<log, drain, pending>>
             /\ \A t \in Tokens : effect[t].status = "completed" => effect'[t] = effect[t]
             /\ Events' \subseteq Events
      BY <1>2 DEF Reserve, Reserved, Events
<1>3. ASSUME NEW u \in Tokens, NEW e \in Evidence, Complete(a, u, e)
      PROVE  /\ UNCHANGED <<log, drain, pending>>
             /\ \A t \in Tokens : effect[t].status = "completed" => effect'[t] = effect[t]
             /\ Events' \subseteq Events
      BY <1>3 DEF Complete, Events, EffectRow
<1>4. CASE EnqueueMarker(a)
  <2> DEFINE u == TokenOf[JobOf[a]]
  <2>1. u \in Tokens
        OBVIOUS
  <2>2. CASE Record(a, u)
    <3>1. effect' = [effect EXCEPT ![u] = Recorded(a)] /\ effect[u].status = "none"
          BY <2>2 DEF Record
    <3>2. Events' = Events \cup {u} /\ pending' = pending \cup {u}
      <4>1. effect'[u].evidence = "event"
            BY <2>1, <3>1 DEF Recorded
      <4>2. \A t \in Tokens \ {u} : effect'[t] = effect[t]
            BY <3>1
      <4> QED BY <2>1, <2>2, <4>1, <4>2 DEF Events, Record
    <3> QED BY <1>4, <3>1, <3>2 DEF EnqueueMarker
  <2>3. CASE Reuse(a, u) \/ Blocked(a, u) \/ Conflict(a, u)
        BY <1>4, <2>3 DEF EnqueueMarker, Reuse, Blocked, Conflict, Events
  <2> QED BY <1>4, <2>2, <2>3 DEF EnqueueMarker
<1> QED BY <1>1, <1>2, <1>3, <1>4 DEF Effects

\* A reconciler writes no row, appends only events of entries it was given,
\* and removes only entries whose event is written.
LEMMA ReconcilerStep ==
  ASSUME EffectTypeOK, Known, Written, NEW r \in Reconcilers,
         Deliver(r) \/ FailEntry(r) \/ Crash(r)
  PROVE  /\ UNCHANGED <<life, answer, effect>>
         /\ Known'
         /\ Written'
         /\ \A t \in Tokens : log'[t] \in Nat /\ log'[t] >= log[t]
         /\ \A t \in Tokens : log'[t] # log[t] => t \in Events
         /\ \A t \in pending : t \in pending' \/ log[t] > 0
<1> USE DEF EffectTypeOK
<1>0. drain[r] \in DrainTask /\ Events \subseteq Tokens
      BY DEF Events
<1>1. CASE StartDrain(r)
      BY <1>1 DEF StartDrain, Goto, At, Known, Written, Events
<1>2. ASSUME NEW t \in Tokens, ReadLog(r, t)
      PROVE  /\ UNCHANGED <<life, answer, effect, log, pending>>
             /\ Known'
             /\ Written'
  <2>1. t \in Events /\ drain[r].todo \subseteq Events
        BY <1>2 DEF ReadLog, At, Known
  <2>2. CASE log[t] = 0
        BY <1>2, <2>1, <2>2 DEF ReadLog, Goto, At, Known, Written, Events
  <2>3. CASE log[t] # 0
        BY <1>2, <2>1, <2>3 DEF ReadLog, Goto, At, Known, Written, Events
  <2> QED BY <1>2, <2>2, <2>3 DEF ReadLog
<1>3. CASE AppendEvent(r)
  <2> DEFINE t == drain[r].entry
  <2>1. t \in Events /\ drain[r].todo \subseteq Events
        BY <1>3 DEF AppendEvent, At, Known
  <2>2. log' = [log EXCEPT ![t] = @ + 1] /\ UNCHANGED <<life, answer, effect, pending>>
        BY <1>3 DEF AppendEvent
  <2>3. /\ drain' = [drain EXCEPT ![r] = drain'[r]]
        /\ drain'[r].pc = "marking" /\ drain'[r].todo = drain[r].todo
        /\ drain'[r].entry = t
    <3>1. drain[r] \in [pc : {"appending", "marking"}, todo : SUBSET Tokens, entry : Tokens]
          BY <1>0, <1>3 DEF AppendEvent, At, DrainTask, Resting
    <3> QED BY <1>3, <3>1 DEF AppendEvent, Goto
  <2>4. \A u \in Tokens : log'[u] \in Nat /\ log'[u] >= log[u]
        BY <2>1, <2>2, <1>0
  <2>5. Known'
        BY <2>1, <2>2, <2>3 DEF Known, At, Events
  <2>6. Written'
        BY <2>1, <2>2, <2>3, <2>4, <1>0 DEF Written, At, Known
  <2> QED BY <1>0, <2>1, <2>2, <2>4, <2>5, <2>6
<1>4. CASE MarkProcessed(r)
      BY <1>0, <1>4 DEF MarkProcessed, Goto, At, Known, Written, Events
<1>5. CASE EndDrain(r)
      BY <1>5 DEF EndDrain, Goto, At, Known, Written, Events, Resting
<1>6. CASE FailEntry(r)
      BY <1>6 DEF FailEntry, Goto, At, Known, Written, Events
<1>7. CASE Crash(r)
      BY <1>7 DEF Crash, Goto, At, Known, Written, Events, Resting
<1> QED BY <1>1, <1>2, <1>3, <1>4, <1>5, <1>6, <1>7 DEF Deliver

-----------------------------------------------------------------------------
(***************************************************************************)
(* The invariant.                                                          *)
(***************************************************************************)

\* What a worker is told about its marker is true when it is told.
LEMMA ToldTruly ==
  ASSUME EffectTypeOK, RunsWithEvidence, NEW a \in Attempts, Effects(a)
  PROVE  RunsWithEvidence'
<1> USE DEF EffectTypeOK
<1> DEFINE t(b) == TokenOf[JobOf[b]]
           Backed(b) == /\ effect[t(b)].status = "completed"
                        /\ Bound(t(b), JobOf[b], "marker")
                        /\ answer[b] = "created" => effect[t(b)].owner = b
<1>1. ASSUME NEW b \in Attempts, Backed(b), answer'[b] = answer[b]
      PROVE  Backed(b)'
  <2>1. t(b) \in Tokens
        OBVIOUS
  <2>2. effect'[t(b)] = effect[t(b)]
        BY <1>1, <2>1, AttemptStep
  <2> QED BY <1>1, <2>2 DEF Bound
<1>2. CASE answer' = answer
  <2>1. \A b \in Attempts : answer[b] \in {"created", "reused"} => Backed(b)
        BY DEF RunsWithEvidence
  <2>2. \A b \in Attempts : answer'[b] \in {"created", "reused"} => Backed(b)'
        BY <1>1, <1>2, <2>1
  <2> QED BY <2>2 DEF RunsWithEvidence
<1>3. CASE EnqueueMarker(a) \/ RefuseMarker(a)
  <2> SUFFICES ASSUME NEW b \in Attempts, answer'[b] \in {"created", "reused"}
               PROVE  Backed(b)'
      BY DEF RunsWithEvidence
  <2>0. t(a) \in Tokens
        OBVIOUS
  <2>1. CASE b # a
    <3>1. answer'[b] = answer[b]
          BY <1>3, <2>1 DEF EnqueueMarker, RefuseMarker, Record, Reuse, Blocked,
                            Conflict, Tell
    <3>2. Backed(b)
          BY <3>1 DEF RunsWithEvidence
    <3> QED BY <1>1, <3>1, <3>2
  <2>2. CASE b = a /\ EnqueueMarker(a) /\ Record(a, t(a))
    <3>1. effect'[t(a)] = Recorded(a)
          BY <2>0, <2>2 DEF Record
    <3> QED BY <2>2, <3>1 DEF Recorded, Bound
  <2>3. CASE b = a /\ EnqueueMarker(a) /\ Reuse(a, t(a))
    <3>1. answer'[b] = "reused" /\ effect' = effect
          BY <2>3 DEF Reuse, Tell
    <3> QED BY <2>3, <3>1 DEF Reuse, Bound
  <2>4. ASSUME b = a,
               RefuseMarker(a) \/ Blocked(a, t(a)) \/ Conflict(a, t(a))
        PROVE  FALSE
        BY <2>4 DEF RefuseMarker, Blocked, Conflict, Tell
  <2> QED BY <1>3, <2>1, <2>2, <2>3, <2>4 DEF EnqueueMarker
<1> QED BY <1>2, <1>3 DEF Effects, Start, End, Reserve, Complete

\* The inductive step: an attempt adds entries with their events, and a
\* reconciler removes one only when the log has its event.
LEMMA StepInv == EffectInv /\ [Next]_effectVars => EffectInv'
<1> SUFFICES ASSUME EffectInv, [Next]_effectVars
             PROVE  EffectInv'
    OBVIOUS
<1>0. EffectTypeOK'
      BY StepTypes DEF EffectInv
<1>1. CASE UNCHANGED effectVars
  <2>1. Known' /\ Written'
        BY <1>1 DEF effectVars, EffectInv, Known, Written, At, Events
  <2>2. RunsWithEvidence' /\ EventNotLost'
        BY <1>1 DEF effectVars, EffectInv, RunsWithEvidence, EventNotLost, Bound
  <2> QED BY <1>0, <2>1, <2>2 DEF EffectInv
<1>2. ASSUME NEW a \in Attempts, Effects(a)
      PROVE  EffectInv'
  <2>1. RunsWithEvidence'
        BY <1>2, ToldTruly DEF EffectInv
  <2>2. /\ UNCHANGED <<log, drain>>
        /\ pending \subseteq pending'
        /\ \A t \in Tokens : effect[t].status = "completed" => effect'[t] = effect[t]
        /\ \A t \in Tokens : t \in Events' \ Events => t \in pending'
        /\ pending' \ pending \subseteq Events'
        BY <1>2, AttemptStep DEF EffectInv
  <2>3. Events \subseteq Events'
        BY <2>2 DEF Events, EffectInv, EffectTypeOK, Coherent
  <2>4. Known' /\ Written'
        BY <2>2, <2>3 DEF EffectInv, Known, Written, At
  <2>5. EventNotLost'
        BY <2>2 DEF EffectInv, EventNotLost, Events
  <2> QED BY <1>0, <2>1, <2>4, <2>5 DEF EffectInv
<1>3. ASSUME NEW r \in Reconcilers, Deliver(r) \/ FailEntry(r) \/ Crash(r)
      PROVE  EffectInv'
  <2>1. /\ UNCHANGED <<life, answer, effect>>
        /\ Known' /\ Written'
        /\ \A t \in Tokens : log'[t] \in Nat /\ log'[t] >= log[t]
        /\ \A t \in pending : t \in pending' \/ log[t] > 0
        BY <1>3, ReconcilerStep DEF EffectInv
  <2>2. RunsWithEvidence'
        BY <2>1 DEF EffectInv, RunsWithEvidence, Bound
  <2>3. EventNotLost'
        BY <2>1 DEF EffectInv, EventNotLost, EffectTypeOK
  <2> QED BY <1>0, <2>1, <2>2, <2>3 DEF EffectInv
<1> QED BY <1>1, <1>2, <1>3 DEF Next

LEMMA InitInv == Init => EffectInv
<1> SUFFICES ASSUME Init PROVE EffectInv
    OBVIOUS
<1>1. Known /\ Written
      BY DEF Init, Known, Written, At, Resting
<1>2. RunsWithEvidence /\ EventNotLost
      BY DEF Init, RunsWithEvidence, EventNotLost, Unused
<1> QED BY <1>1, <1>2, InitTypes DEF EffectInv

LEMMA EffectInvariance == Spec => []EffectInv
  BY InitInv, StepInv, PTL DEF Spec

(***************************************************************************)
(* No worker goes on to its run without a completed marker of its job.     *)
(***************************************************************************)
THEOREM EvidenceTheorem == Spec => []RunsWithEvidence
<1>1. EffectInv => RunsWithEvidence
      BY DEF EffectInv
<1> QED BY <1>1, EffectInvariance, PTL

(***************************************************************************)
(* Crashing and failing reconcilers lose no event.                         *)
(***************************************************************************)
THEOREM NotLostTheorem == Spec => []EventNotLost
<1>1. EffectInv => EventNotLost
      BY DEF EffectInv
<1> QED BY <1>1, EffectInvariance, PTL

-----------------------------------------------------------------------------
(***************************************************************************)
(* Nobody touches a reservation whose owner has ended.                     *)
(***************************************************************************)
THEOREM AmbiguousTheorem == Spec => AmbiguousStays
<1>1. ASSUME EffectInv, [Next]_effectVars,
             NEW t \in Tokens, effect[t].status = "reserved",
             life[effect[t].owner] = "over"
      PROVE  effect'[t] = effect[t]
  <2> USE DEF EffectInv, EffectTypeOK
  <2>1. CASE UNCHANGED effectVars
        BY <2>1 DEF effectVars
  <2>2. ASSUME NEW r \in Reconcilers, Deliver(r) \/ FailEntry(r) \/ Crash(r)
        PROVE  effect'[t] = effect[t]
        BY <1>1, <2>2, ReconcilerStep
  <2>3. ASSUME NEW a \in Attempts, Effects(a)
        PROVE  effect'[t] = effect[t]
    <3>1. CASE Start(a) \/ End(a) \/ RefuseMarker(a)
          BY <3>1 DEF Start, End, RefuseMarker
    <3>2. ASSUME NEW u \in Tokens, NEW op \in Operations \cup {"marker"},
                 Reserve(a, u, op)
          PROVE  effect'[t] = effect[t]
          BY <1>1, <3>2 DEF Reserve
    <3>3. ASSUME NEW u \in Tokens, NEW e \in Evidence, Complete(a, u, e)
          PROVE  effect'[t] = effect[t]
          BY <1>1, <3>3 DEF Complete
    <3>4. CASE EnqueueMarker(a)
          BY <1>1, <3>4 DEF EnqueueMarker, Record, Reuse, Blocked, Conflict
    <3> QED BY <2>3, <3>1, <3>2, <3>3, <3>4 DEF Effects
  <2> QED BY <1>1, <2>1, <2>2, <2>3 DEF Next
<1>2. EffectInv /\ [Next]_effectVars
        => [\A t \in Tokens :
              effect[t].status = "reserved" /\ life[effect[t].owner] = "over"
                => effect'[t] = effect[t]]_effectVars
      BY <1>1
<1> QED BY <1>2, EffectInvariance, PTL DEF Spec, AmbiguousStays

-----------------------------------------------------------------------------
(***************************************************************************)
(* The store implements the register: reserving takes a token, completing  *)
(* does it, the marker is taken and done at once, and the first copy in    *)
(* the log announces it; everything else stutters.                         *)
(***************************************************************************)
Taken == [t \in Tokens |-> ClaimOf(t)]
Done == [t \in Tokens |-> ProofOf(t)]
Logged == {t \in Tokens : log[t] > 0}

RegisterStep ==
  \/ UNCHANGED <<Taken, Done, Logged>>
  \/ \E t \in Tokens :
       \/ \E c \in Attempts \X (Operations \cup {"marker"}) : Register!Take(t, c)
       \/ \E p \in Evidence \cup {"event"} : Register!Do(t, p)
       \/ \E c \in Attempts \X (Operations \cup {"marker"}),
            p \in Evidence \cup {"event"} : Register!TakeAndDo(t, c, p)
       \/ Register!Announce(t)

LEMMA AttemptImplements ==
  ASSUME EffectInv, NEW a \in Attempts, Effects(a)
  PROVE  RegisterStep
<1> USE DEF EffectInv, EffectTypeOK
<1>0. Logged' = Logged
      BY AttemptStep DEF Logged
<1>1. CASE effect' = effect
      BY <1>0, <1>1 DEF RegisterStep, Taken, Done, ClaimOf, ProofOf
<1>2. ASSUME NEW t \in Tokens, NEW op \in Operations \cup {"marker"},
             Reserve(a, t, op)
      PROVE  RegisterStep
  <2>1. effect' = [effect EXCEPT ![t] = Reserved(a, op)] /\ effect[t].status = "none"
        BY <1>2 DEF Reserve
  <2>2. Taken[t] = {} /\ Taken' = [Taken EXCEPT ![t] = {<<a, op>>}]
        BY <2>1 DEF Taken, ClaimOf, Reserved
  <2>3. Done' = Done
        BY <2>1 DEF Done, ProofOf, Reserved
  <2>4. Register!Take(t, <<a, op>>)
        BY <1>0, <2>2, <2>3 DEF Register!Take, Taken, Done, Logged
  <2> QED BY <2>4 DEF RegisterStep
<1>3. ASSUME NEW t \in Tokens, NEW e \in Evidence, Complete(a, t, e)
      PROVE  RegisterStep
  <2>1. /\ effect[t].status = "reserved"
        /\ effect'[t] = [effect[t] EXCEPT !.status = "completed", !.evidence = e]
        /\ \A u \in Tokens \ {t} : effect'[u] = effect[u]
        BY <1>3 DEF Complete
  <2>2. /\ effect'[t].status = "completed" /\ effect'[t].evidence = e
        /\ effect'[t].owner = effect[t].owner
        /\ effect'[t].operation = effect[t].operation
        BY <2>1 DEF EffectRow
  <2>3. Taken' = Taken /\ Taken[t] # {}
        BY <2>1, <2>2 DEF Taken, ClaimOf
  <2>4. Done[t] = {} /\ Done' = [Done EXCEPT ![t] = {e}]
        BY <2>1, <2>2 DEF Done, ProofOf
  <2>5. Register!Do(t, e)
        BY <1>0, <2>3, <2>4 DEF Register!Do, Taken, Done, Logged
  <2> QED BY <2>5 DEF RegisterStep
<1>4. CASE EnqueueMarker(a) /\ Record(a, TokenOf[JobOf[a]])
  <2> DEFINE t == TokenOf[JobOf[a]]
  <2>1. /\ t \in Tokens
        /\ effect' = [effect EXCEPT ![t] = Recorded(a)] /\ effect[t].status = "none"
        BY <1>4 DEF Record
  <2>2. Taken[t] = {} /\ Taken' = [Taken EXCEPT ![t] = {<<a, "marker">>}]
        BY <2>1 DEF Taken, ClaimOf, Recorded
  <2>3. Done' = [Done EXCEPT ![t] = {"event"}]
        BY <2>1 DEF Done, ProofOf, Recorded
  <2>4. Register!TakeAndDo(t, <<a, "marker">>, "event")
        BY <1>0, <2>2, <2>3 DEF Register!TakeAndDo, Taken, Done, Logged
  <2> QED BY <2>1, <2>4 DEF RegisterStep
<1> QED BY <1>1, <1>2, <1>3, <1>4
        DEF Effects, Start, End, RefuseMarker, EnqueueMarker, Reuse, Blocked, Conflict

LEMMA ReconcilerImplements ==
  ASSUME EffectInv, NEW r \in Reconcilers,
         Deliver(r) \/ FailEntry(r) \/ Crash(r)
  PROVE  RegisterStep
<1> USE DEF EffectInv, EffectTypeOK
<1>1. Taken' = Taken /\ Done' = Done
      BY ReconcilerStep DEF Taken, Done, ClaimOf, ProofOf
<1>2. CASE log' = log
      BY <1>1, <1>2 DEF RegisterStep, Logged
<1>3. CASE AppendEvent(r)
  <2>1. PICK t \in Tokens : t = drain[r].entry /\ effect[t].evidence = "event"
        BY <1>3 DEF AppendEvent, At, Known, Events
  <2>2. Done[t] # {}
        BY <2>1 DEF Done, ProofOf, Coherent
  <2>3. Logged' = Logged \cup {t}
        BY <1>3, <2>1 DEF AppendEvent, Logged
  <2>4. Register!Announce(t)
        BY <1>1, <2>2, <2>3 DEF Register!Announce, Taken, Done, Logged
  <2> QED BY <2>4 DEF RegisterStep
<1> QED BY <1>2, <1>3 DEF Deliver, StartDrain, ReadLog, MarkProcessed, EndDrain,
                          FailEntry, Crash

(***************************************************************************)
(* The side-effect store implements a write-once register per token.       *)
(***************************************************************************)
THEOREM RegisterTheorem == Spec => ImplementsRegister
<1>1. Init => Register!RegisterInit
      BY DEF Init, Register!RegisterInit, ClaimOf, ProofOf, Unused
<1>2. EffectInv /\ [Next]_effectVars => RegisterStep
  <2> SUFFICES ASSUME EffectInv, [Next]_effectVars PROVE RegisterStep
      OBVIOUS
  <2>1. CASE UNCHANGED effectVars
        BY <2>1 DEF effectVars, RegisterStep, Taken, Done, Logged, ClaimOf, ProofOf
  <2> QED BY <2>1, AttemptImplements, ReconcilerImplements DEF Next
<1>3. RegisterStep => [Register!RegisterNext]_(Register!registerVars)
      BY DEF RegisterStep, Register!RegisterNext, Register!registerVars, Taken,
             Done, Logged
<1> QED BY <1>1, <1>2, <1>3, EffectInvariance, PTL
        DEF Spec, ImplementsRegister, Register!RegisterSpec

-----------------------------------------------------------------------------
(***************************************************************************)
(* The number of copies.  A reconciler is counted from when it read a log  *)
(* without the event until it appends, and every copy was counted before.  *)
(***************************************************************************)
Appending(t) == {r \in Reconcilers : At(r, "appending") /\ drain[r].entry = t}

Counted ==
    \A t \in Tokens : log[t] + Cardinality(Appending(t)) <= Cardinality(Reconcilers)

LEMMA AppendingFinite ==
  ASSUME NEW t \in Tokens
  PROVE  /\ IsFiniteSet(Appending(t))
         /\ Cardinality(Appending(t)) \in Nat
         /\ Cardinality(Appending(t)) <= Cardinality(Reconcilers)
         /\ Cardinality(Reconcilers) \in Nat
<1>1. Appending(t) \subseteq Reconcilers
      BY DEF Appending
<1> QED BY <1>1, ReconcilersAssumption, FS_Subset, FS_CardinalityType

LEMMA StepCounts ==
  ASSUME EffectInv, Counted, EffectTypeOK', [Next]_effectVars
  PROVE  Counted'
<1> USE DEF EffectInv, EffectTypeOK
<1> SUFFICES ASSUME NEW t \in Tokens
             PROVE  log'[t] + Cardinality(Appending(t)') <= Cardinality(Reconcilers)
    BY DEF Counted
<1>0. log[t] + Cardinality(Appending(t)) <= Cardinality(Reconcilers)
      BY DEF Counted
<1>1. Appending(t)' \subseteq Reconcilers
      BY DEF Appending
<1>2. /\ IsFiniteSet(Appending(t)')
      /\ Cardinality(Appending(t)') \in Nat
      /\ Cardinality(Appending(t)') <= Cardinality(Reconcilers)
      BY <1>1, ReconcilersAssumption, FS_Subset, FS_CardinalityType
<1>3. CASE log'[t] = 0
      BY <1>2, <1>3, AppendingFinite
<1>4. CASE log'[t] = log[t] /\ log[t] # 0
  <2>1. Appending(t)' \subseteq Appending(t)
    <3>1. CASE drain' = drain
          BY <3>1 DEF Appending, At
    <3>2. ASSUME NEW r \in Reconcilers, Deliver(r) \/ FailEntry(r) \/ Crash(r)
          PROVE  Appending(t)' \subseteq Appending(t)
      <4>1. ASSUME NEW u \in Tokens, ReadLog(r, u)
            PROVE  Appending(t)' \subseteq Appending(t)
            BY <1>4, <4>1 DEF ReadLog, Goto, At, Appending
      <4>2. CASE AppendEvent(r)
        <5>1. drain'[r].pc = "marking"
          <6>1. drain[r] \in [pc : {"appending", "marking"}, todo : SUBSET Tokens, entry : Tokens]
                BY <4>2 DEF AppendEvent, At, DrainTask, Resting
          <6> QED BY <4>2, <6>1 DEF AppendEvent, Goto
        <5> QED BY <4>2, <5>1 DEF AppendEvent, Goto, At, Appending
      <4> QED BY <3>2, <4>1, <4>2 DEF Deliver, StartDrain, MarkProcessed, EndDrain,
                   FailEntry, Crash, Goto, At, Appending, Resting
    <3> QED BY <3>1, <3>2, AttemptStep DEF Next, effectVars
  <2>2. Cardinality(Appending(t)') <= Cardinality(Appending(t))
        BY <2>1, AppendingFinite, FS_Subset
  <2> QED BY <1>0, <1>2, <1>4, <2>2, AppendingFinite
<1>5. CASE log'[t] # log[t]
  <2>1. PICK r \in Reconcilers : AppendEvent(r)
    <3>1. CASE UNCHANGED log
          BY <1>5, <3>1
    <3> QED BY <1>5, <3>1, AttemptStep
            DEF Next, effectVars, Deliver, StartDrain, ReadLog, MarkProcessed,
                EndDrain, FailEntry, Crash
  <2>2. /\ drain[r].entry = t /\ At(r, "appending")
        /\ log'[t] = log[t] + 1
        BY <1>5, <2>1 DEF AppendEvent, Known, At, Events
  <2>3. Appending(t)' = Appending(t) \ {r} /\ r \in Appending(t)
    <3>1. drain[r] \in [pc : {"appending", "marking"}, todo : SUBSET Tokens, entry : Tokens]
          BY <2>2 DEF At, DrainTask, Resting
    <3>2. drain'[r].pc = "marking"
          BY <2>1, <3>1 DEF AppendEvent, Goto
    <3> QED BY <2>1, <2>2, <3>2 DEF AppendEvent, Goto, At, Appending
  <2>4. Cardinality(Appending(t)') = Cardinality(Appending(t)) - 1
        BY <2>3, AppendingFinite, FS_RemoveElement
  <2> QED BY <1>0, <1>2, <2>2, <2>4, AppendingFinite
<1> QED BY <1>3, <1>4, <1>5

(***************************************************************************)
(* The log holds no more copies of an event than there are reconcilers.    *)
(***************************************************************************)
THEOREM CopiesTheorem == Spec => []CopiesBounded
<1>1. Init => Counted
  <2> SUFFICES ASSUME Init, NEW t \in Tokens
               PROVE  log[t] + Cardinality(Appending(t)) <= Cardinality(Reconcilers)
      BY DEF Counted
  <2>1. log[t] = 0
        BY DEF Init
  <2> QED BY <2>1, AppendingFinite
<1>2. EffectInv /\ Counted /\ EffectTypeOK' /\ [Next]_effectVars => Counted'
      BY StepCounts
<1>3. EffectInv => EffectTypeOK
      BY DEF EffectInv
<1>4. EffectInv /\ Counted => CopiesBounded
  <2> SUFFICES ASSUME EffectInv, Counted, NEW t \in Tokens
               PROVE  log[t] <= Cardinality(Reconcilers)
      BY DEF CopiesBounded
  <2>1. log[t] \in Nat /\ log[t] + Cardinality(Appending(t)) <= Cardinality(Reconcilers)
        BY DEF EffectInv, EffectTypeOK, Counted
  <2> QED BY <2>1, AppendingFinite
<1> QED BY <1>1, <1>2, <1>3, <1>4, EffectInvariance, PTL DEF Spec
=============================================================================
