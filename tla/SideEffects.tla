---------------------------- MODULE SideEffects ----------------------------
(***************************************************************************)
(* Idempotent side effects (src/gigaloom/runtime/side_effects): the        *)
(* attempts of a job share a token, and whatever they do under it happens  *)
(* once.  reserve and complete bracket an effect; enqueue_side_effect_event *)
(* is the effect of the worker itself, the recovery marker, done in one    *)
(* transaction with the outbox entry that announces it.  A reconciler of   *)
(* any worker process delivers the entry to the event log of the session:  *)
(* it reads the log, appends the event and marks the entry, each on its    *)
(* own.                                                                    *)
(*                                                                         *)
(* Of an attempt only its lifetime is kept: it starts, and it ends by the  *)
(* hand of its worker, of a recovery or of a reconciliation (DurableRuntime *)
(* says how), so its worker may still act when it has ended.  An operation *)
(* stands for itself and its intent.                                       *)
(***************************************************************************)
EXTENDS Naturals, FiniteSets

CONSTANTS
    Jobs,          \* logical jobs
    Attempts,      \* job attempts
    Tokens,        \* token hashes
    JobOf,         \* the job of each attempt
    TokenOf,       \* the recovery marker identity of each job
    Operations,    \* operations (with their intent) other than the marker
    Evidence,      \* completion evidence of such operations
    Reconcilers,   \* processes that reconcile
    Nobody,        \* the owner of a token nobody has reserved
    MishapBound    \* bound on crashes and failures of reconcilers

ASSUME JobOfAssumption == JobOf \in [Attempts -> Jobs]
ASSUME TokenOfAssumption == TokenOf \in [Jobs -> Tokens]
ASSUME NobodyAssumption == Nobody \notin Attempts
ASSUME ReconcilersAssumption == IsFiniteSet(Reconcilers)
ASSUME BoundAssumption == MishapBound \in Nat
ASSUME NamesAssumption == /\ {"none", "marker"} \cap Operations = {}
                          /\ {"none", "event"} \cap Evidence = {}

VARIABLES
    life,      \* of each attempt: "none", "live" or "over"
    answer,    \* what the worker of an attempt was told about its marker
    effect,    \* harness_side_effects, by token
    pending,   \* tokens with an unprocessed side_effect_event entry
    log,       \* how many copies of a token's event the session log holds
    drain,     \* what each reconciler is about
    mishaps    \* crashes and failures so far

effectVars == <<life, answer, effect, pending, log, drain, mishaps>>

Life == {"none", "live", "over"}
Answer == {"none", "created", "reused", "blocked", "conflict", "refused"}
EffectRow == [status : {"none", "reserved", "completed"},
              owner : Attempts \cup {Nobody},
              operation : Operations \cup {"none", "marker"},
              evidence : Evidence \cup {"none", "event"}]

Unused == [status |-> "none", owner |-> Nobody,
           operation |-> "none", evidence |-> "none"]

\* todo: entries read by pending_outbox and not yet handled; entry: the
\* handled one.
Resting == [pc |-> "resting"]
DrainTask ==
    {Resting}
    \cup [pc : {"draining"}, todo : SUBSET Tokens]
    \cup [pc : {"appending", "marking"}, todo : SUBSET Tokens, entry : Tokens]

Init ==
    /\ life = [a \in Attempts |-> "none"]
    /\ answer = [a \in Attempts |-> "none"]
    /\ effect = [t \in Tokens |-> Unused]
    /\ pending = {}
    /\ log = [t \in Tokens |-> 0]
    /\ drain = [r \in Reconcilers |-> Resting]
    /\ mishaps = 0

Reserved(a, operation) ==
    [status |-> "reserved", owner |-> a,
     operation |-> operation, evidence |-> "none"]

Recorded(a) ==
    [status |-> "completed", owner |-> a,
     operation |-> "marker", evidence |-> "event"]

\* Is the token bound to this job and this intent?
Bound(t, j, operation) ==
    /\ JobOf[effect[t].owner] = j
    /\ effect[t].operation = operation

-----------------------------------------------------------------------------
(***************************************************************************)
(* Attempts.                                                               *)
(***************************************************************************)

Start(a) ==
    /\ life[a] = "none"
    /\ life' = [life EXCEPT ![a] = "live"]
    /\ UNCHANGED <<answer, effect, pending, log, drain, mishaps>>

End(a) ==
    /\ life[a] = "live"
    /\ life' = [life EXCEPT ![a] = "over"]
    /\ UNCHANGED <<answer, effect, pending, log, drain, mishaps>>

\* reserve_side_effect; for a token that is taken it changes nothing.
Reserve(a, t, operation) ==
    /\ life[a] = "live"
    /\ effect[t].status = "none"
    /\ effect' = [effect EXCEPT ![t] = Reserved(a, operation)]
    /\ UNCHANGED <<life, answer, pending, log, drain, mishaps>>

\* Faulty variants of Complete: without evidence; by an attempt that has
\* ended.
CompleteUnproved(a, t, evidence) ==
    /\ effect[t].owner = a
    /\ effect[t].status = "reserved"
    /\ life[a] = "live"
    /\ effect' = [effect EXCEPT ![t].status = "completed"]
    /\ UNCHANGED <<life, answer, pending, log, drain, mishaps>>

CompleteLate(a, t, evidence) ==
    /\ effect[t].owner = a
    /\ effect[t].status = "reserved"
    /\ effect' = [effect EXCEPT ![t].status = "completed",
                                ![t].evidence = evidence]
    /\ UNCHANGED <<life, answer, pending, log, drain, mishaps>>

\* complete_side_effect, where it changes something.
Complete(a, t, evidence) ==
    /\ effect[t].owner = a
    /\ effect[t].status = "reserved"
    /\ life[a] = "live"
    /\ effect' = [effect EXCEPT ![t].status = "completed",
                                ![t].evidence = evidence]
    /\ UNCHANGED <<life, answer, pending, log, drain, mishaps>>

-----------------------------------------------------------------------------
(***************************************************************************)
(* The recovery marker: run_once records it once per attempt, before the   *)
(* run.  Each of the three ways to refuse it leaves the store as it was.   *)
(***************************************************************************)

Tell(a, told) == answer' = [answer EXCEPT ![a] = told]

\* Faulty variants of Record: the row is written over a reservation; the
\* outbox entry is forgotten.
RecordOver(a, t) ==
    /\ effect[t].status # "completed"
    /\ effect' = [effect EXCEPT ![t] = Recorded(a)]
    /\ pending' = pending \cup {t}
    /\ Tell(a, "created")

RecordUnannounced(a, t) ==
    /\ effect[t].status = "none"
    /\ effect' = [effect EXCEPT ![t] = Recorded(a)]
    /\ Tell(a, "created")
    /\ UNCHANGED pending

Record(a, t) ==
    /\ effect[t].status = "none"
    /\ effect' = [effect EXCEPT ![t] = Recorded(a)]
    /\ pending' = pending \cup {t}
    /\ Tell(a, "created")

\* Faulty variant of Reuse: a reservation counts as done.
ReuseReserved(a, t) ==
    /\ effect[t].status # "none"
    /\ Bound(t, JobOf[a], "marker")
    /\ Tell(a, "reused")
    /\ UNCHANGED <<effect, pending>>

Reuse(a, t) ==
    /\ effect[t].status = "completed"
    /\ Bound(t, JobOf[a], "marker")
    /\ Tell(a, "reused")
    /\ UNCHANGED <<effect, pending>>

Blocked(a, t) ==
    /\ effect[t].status = "reserved"
    /\ Bound(t, JobOf[a], "marker")
    /\ Tell(a, "blocked")
    /\ UNCHANGED <<effect, pending>>

Conflict(a, t) ==
    /\ effect[t].status # "none"
    /\ ~Bound(t, JobOf[a], "marker")
    /\ Tell(a, "conflict")
    /\ UNCHANGED <<effect, pending>>

EnqueueMarker(a) ==
    /\ life[a] = "live"
    /\ answer[a] = "none"
    /\ LET t == TokenOf[JobOf[a]] IN
         Record(a, t) \/ Reuse(a, t) \/ Blocked(a, t) \/ Conflict(a, t)
    /\ UNCHANGED <<life, log, drain, mishaps>>

\* The attempt was ended while its worker was still on the way.
RefuseMarker(a) ==
    /\ life[a] = "over"
    /\ answer[a] = "none"
    /\ Tell(a, "refused")
    /\ UNCHANGED <<life, effect, pending, log, drain, mishaps>>

-----------------------------------------------------------------------------
(***************************************************************************)
(* Delivery.                                                               *)
(***************************************************************************)

At(r, pc) == drain[r].pc = pc
Goto(r, next) == drain' = [drain EXCEPT ![r] = next]

StartDrain(r) ==
    /\ At(r, "resting")
    /\ Goto(r, [pc |-> "draining", todo |-> pending])
    /\ UNCHANGED <<life, answer, effect, pending, log, mishaps>>

\* Faulty variant of ReadLog: the log is not read.
ReadNothing(r, t) ==
    /\ At(r, "draining")
    /\ t \in drain[r].todo
    /\ Goto(r, [pc |-> "appending", todo |-> drain[r].todo \ {t}, entry |-> t])
    /\ UNCHANGED <<life, answer, effect, pending, log, mishaps>>

\* _append_side_effect_event up to the decision whether to append; that the
\* row is completed is checked by the code too.
ReadLog(r, t) ==
    /\ At(r, "draining")
    /\ t \in drain[r].todo
    /\ effect[t].status = "completed"
    /\ Goto(r, [pc |-> IF log[t] = 0 THEN "appending" ELSE "marking",
                todo |-> drain[r].todo \ {t}, entry |-> t])
    /\ UNCHANGED <<life, answer, effect, pending, log, mishaps>>

AppendEvent(r) ==
    /\ At(r, "appending")
    /\ log' = [log EXCEPT ![drain[r].entry] = @ + 1]
    /\ Goto(r, [drain[r] EXCEPT !.pc = "marking"])
    /\ UNCHANGED <<life, answer, effect, pending, mishaps>>

\* mark_outbox_processed
MarkProcessed(r) ==
    /\ At(r, "marking")
    /\ pending' = pending \ {drain[r].entry}
    /\ Goto(r, [pc |-> "draining", todo |-> drain[r].todo])
    /\ UNCHANGED <<life, answer, effect, log, mishaps>>

EndDrain(r) ==
    /\ At(r, "draining")
    /\ drain[r].todo = {}
    /\ Goto(r, Resting)
    /\ UNCHANGED <<life, answer, effect, pending, log, mishaps>>

\* Faulty variant of FailEntry: a failed entry is marked all the same.
FailAndMark(r) ==
    /\ drain[r].pc \in {"appending", "marking"}
    /\ mishaps < MishapBound
    /\ mishaps' = mishaps + 1
    /\ pending' = pending \ {drain[r].entry}
    /\ Goto(r, [pc |-> "draining", todo |-> drain[r].todo])
    /\ UNCHANGED <<life, answer, effect, log>>

\* Reading or appending raises, before or after the event was written:
\* record_outbox_failure leaves the entry for a later drain.
FailEntry(r) ==
    /\ drain[r].pc \in {"appending", "marking"}
    /\ mishaps < MishapBound
    /\ mishaps' = mishaps + 1
    /\ Goto(r, [pc |-> "draining", todo |-> drain[r].todo])
    /\ UNCHANGED <<life, answer, effect, pending, log>>

Crash(r) ==
    /\ ~At(r, "resting")
    /\ mishaps < MishapBound
    /\ mishaps' = mishaps + 1
    /\ Goto(r, Resting)
    /\ UNCHANGED <<life, answer, effect, pending, log>>

-----------------------------------------------------------------------------
Effects(a) ==
    \/ Start(a)
    \/ End(a)
    \/ \E t \in Tokens, operation \in Operations \cup {"marker"} :
         Reserve(a, t, operation)
    \/ \E t \in Tokens, evidence \in Evidence : Complete(a, t, evidence)
    \/ EnqueueMarker(a)
    \/ RefuseMarker(a)

Deliver(r) ==
    \/ StartDrain(r)
    \/ \E t \in Tokens : ReadLog(r, t)
    \/ AppendEvent(r)
    \/ MarkProcessed(r)
    \/ EndDrain(r)

Next ==
    \/ \E a \in Attempts : Effects(a)
    \/ \E r \in Reconcilers : Deliver(r) \/ FailEntry(r) \/ Crash(r)

\* A process that reconciles goes on reconciling; nothing else need happen.
Fairness == \A r \in Reconcilers : WF_effectVars(Deliver(r))

Spec == Init /\ [][Next]_effectVars /\ Fairness
=============================================================================
