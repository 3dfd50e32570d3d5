---------------------------- MODULE NativeProofs ----------------------------
(***************************************************************************)
(* The row of a native process, for any amount of output, any number of    *)
(* faults and any interleaving of the owner, its threads, other servers    *)
(* and clients.                                                            *)
(***************************************************************************)
EXTENDS NativeProperties, TLAPS, WellFoundedInduction

USE NativeAssumption

(***************************************************************************)
(* The row and the owner's record keep their types; the rest is left to    *)
(* the steps that need it.                                                 *)
(***************************************************************************)
RowOK ==
    /\ os \in {"none", "alive", "gone"}
    /\ owner # "idle" => os # "none"
    /\ row \in RowType
    /\ ref \in [status : RowStatuses \ {"none"}, exit : {"open", "reported"}]
    /\ sup \in [at : Places, status : RowStatuses, cancel : {"no", "requested"},
                verdict : {"none", "fence", "stopped", "timed_out"}]
    /\ sup.at \in {"kills", "reports"} => sup.verdict # "none"
    /\ sup.at \in {"decides", "kills", "reports"} => sup.status # "none"
    /\ stopper \in {"idle", "kills", "killed", "found"}
    /\ rec \in [at : {"idle", "writes"}, saw : {"alive", "exited", "unknown"}]
    /\ owner = "up" => row.status # "none"

LEMMA RowTypes == Spec => []RowOK
<1>1. Init => RowOK
      BY DEF Init, RowOK, RowType, NoRow, RowStatuses, Thread, Sup, NoRow, Places, NoRec
<1>2. ASSUME RowOK, [Next]_nativeVars PROVE RowOK'
  <2> USE <1>2 DEF RowOK, RowType, RowStatuses
  <2>1. CASE Write
        BY <2>1 DEF Write, ownerVars, procVars
  <2>2. CASE Exit
        BY <2>2 DEF Exit, ownerVars, procVars
  <2>3. CASE Spawn
        BY <2>3 DEF Spawn, ownerVars, procVars
  <2>4. CASE Persist
        BY <2>4 DEF Persist, ownerVars, procVars, Thread, Sup, NoRow, Places, RowStatuses
  <2>5. CASE PersistFails
        BY <2>5 DEF PersistFails, ownerVars, procVars
  <2>6. CASE Append
        BY <2>6 DEF Append, ownerVars, procVars
  <2>7. CASE AppendFails
        BY <2>7 DEF AppendFails, ownerVars, procVars
  <2>8. CASE Drained
        BY <2>8 DEF Drained, ownerVars, procVars
  <2>9. CASE OwnerLooks
        BY <2>9 DEF OwnerLooks, ownerVars, procVars, Refresh, RefreshRaises, Finished, Ended, StatusAfter
  <2>10. CASE SupWakes
        BY <2>10 DEF SupWakes, ownerVars, procVars, Refresh, RefreshRaises, Finished, Ended, StatusAfter, Thread, Sup, NoRow, Places
  <2>11. CASE SupBeats
        BY <2>11 DEF SupBeats, ownerVars, procVars, Places, Sup
  <2>12. CASE SupFails
        BY <2>12 DEF SupFails, ownerVars, procVars, Thread, Sup, NoRow, Places
  <2>13. CASE SupSleeps
        BY <2>13 DEF SupSleeps, ownerVars, procVars, Thread, Sup, NoRow, Places
  <2>14. CASE SupCondemns
        BY <2>14 DEF SupCondemns, ownerVars, procVars, Verdict, Places, Sup
  <2>15. CASE SupKills
        BY <2>15 DEF SupKills, ownerVars, procVars, Places, Sup
  <2>16. CASE SupReports
        BY <2>16 DEF SupReports, ownerVars, procVars, Refresh, RefreshRaises, Finished, Ended, StatusAfter, Thread, Sup, NoRow, Places
  <2>17. CASE StopBegins
        BY <2>17 DEF StopBegins, ownerVars, procVars, Requested
  <2>18. CASE StopKills
        BY <2>18 DEF StopKills, ownerVars, procVars
  <2>19. CASE StopReports
        BY <2>19 DEF StopReports, ownerVars, procVars, Refresh, RefreshRaises, Finished, Ended, StatusAfter
  <2>20. CASE ForeignStop
        BY <2>20 DEF ForeignStop, ownerVars, procVars, Requested
  <2>21. CASE RecLooks
        BY <2>21 DEF RecLooks, Answers, ownerVars, procVars
  <2>22. CASE RecWrites
        BY <2>22 DEF RecWrites, ownerVars, procVars, Recovered, Ended, NoRec
  <2>23. CASE ReadAtOwner
        BY <2>23 DEF ReadAtOwner, ownerVars, procVars, Refresh, Finished, Ended, StatusAfter
  <2>24. CASE ReadRow
        BY <2>24 DEF ReadRow, ownerVars, procVars
  <2>25. CASE ReadOutputs
        BY <2>25 DEF ReadOutputs, ownerVars, procVars
  <2>30. CASE ReadStatus
        BY <2>30 DEF ReadStatus, ownerVars, procVars
  <2>31. CASE Reconnect
        BY <2>31 DEF Reconnect, ownerVars, procVars
  <2>26. CASE LeaseExpires
        BY <2>26 DEF LeaseExpires, ownerVars, procVars
  <2>27. CASE TimeoutPasses
        BY <2>27 DEF TimeoutPasses, ownerVars, procVars
  <2>28. CASE OwnerDies
        BY <2>28 DEF OwnerDies, ownerVars, procVars, Thread, Sup, NoRow, Places
  <2>29. CASE UNCHANGED nativeVars
        BY <2>29 DEF nativeVars
  <2> QED BY <2>1, <2>2, <2>3, <2>4, <2>5, <2>6, <2>7, <2>8, <2>9, <2>10,
             <2>11, <2>12, <2>13, <2>14, <2>15, <2>16, <2>17, <2>18, <2>19,
             <2>20, <2>21, <2>22, <2>23, <2>24, <2>25, <2>26, <2>27, <2>28,
             <2>29, <2>30, <2>31 DEF Next
<1> QED BY <1>1, <1>2, PTL DEF Spec

-----------------------------------------------------------------------------
(***************************************************************************)
(* What is known when a status is written: nobody writes exited, stopped   *)
(* or timed_out who has not seen the process gone.  An answer of the       *)
(* operating system stays true: a process number is not spawned again.     *)
(***************************************************************************)
GoneInv ==
    /\ owner \in {"idle", "starting"} => row.status = "none"
    /\ rec.at = "writes" => row.status # "none"
    /\ rec.at = "writes" /\ rec.saw = "exited" => os = "gone"
    /\ EndMeansGone

LEMMA GoneInvariant == Spec => []GoneInv
<1>1. Init => GoneInv
      BY DEF Init, GoneInv, EndMeansGone, NoRow, NoRec
<1>2. ASSUME RowOK, GoneInv, [Next]_nativeVars PROVE GoneInv'
  <2> USE <1>2 DEF RowOK, RowType, RowStatuses, GoneInv, EndMeansGone
  <2>1. CASE Write
        BY <2>1 DEF Write, ownerVars, procVars
  <2>2. CASE Exit
        BY <2>2 DEF Exit, ownerVars, procVars
  <2>3. CASE Spawn
        BY <2>3 DEF Spawn, ownerVars, procVars
  <2>4. CASE Persist
        BY <2>4 DEF Persist, ownerVars, procVars
  <2>5. CASE PersistFails
        BY <2>5 DEF PersistFails, ownerVars, procVars
  <2>6. CASE Append
        BY <2>6 DEF Append, ownerVars, procVars
  <2>7. CASE AppendFails
        BY <2>7 DEF AppendFails, ownerVars, procVars
  <2>8. CASE Drained
        BY <2>8 DEF Drained, ownerVars, procVars
  <2>9. CASE OwnerLooks
        BY <2>9 DEF OwnerLooks, ownerVars, procVars, Refresh, RefreshRaises, Holds, Finished, Ended, StatusAfter
  <2>10. CASE SupWakes
        BY <2>10 DEF SupWakes, ownerVars, procVars, Refresh, RefreshRaises, Holds, Finished, Ended, StatusAfter
  <2>11. CASE SupBeats
        BY <2>11 DEF SupBeats, ownerVars, procVars
  <2>12. CASE SupFails
        BY <2>12 DEF SupFails, ownerVars, procVars
  <2>13. CASE SupSleeps
        BY <2>13 DEF SupSleeps, ownerVars, procVars
  <2>14. CASE SupCondemns
        BY <2>14 DEF SupCondemns, ownerVars, procVars
  <2>15. CASE SupKills
        BY <2>15 DEF SupKills, ownerVars, procVars
  <2>16. CASE SupReports
        BY <2>16 DEF SupReports, ownerVars, procVars, Refresh, RefreshRaises, Holds, Finished, Ended, StatusAfter
  <2>17. CASE StopBegins
        BY <2>17 DEF StopBegins, ownerVars, procVars, Requested
  <2>18. CASE StopKills
        BY <2>18 DEF StopKills, ownerVars, procVars
  <2>19. CASE StopReports
        BY <2>19 DEF StopReports, ownerVars, procVars, Refresh, RefreshRaises, Holds, Finished, Ended, StatusAfter
  <2>20. CASE ForeignStop
        BY <2>20 DEF ForeignStop, ownerVars, procVars, Requested
  <2>21. CASE RecLooks
        BY <2>21 DEF RecLooks, ownerVars, procVars, Answers
  <2>22. CASE RecWrites
        BY <2>22 DEF RecWrites, ownerVars, procVars, Recoverable, Recovered, Ended, NoRec
  <2>23. CASE ReadAtOwner
        BY <2>23 DEF ReadAtOwner, ownerVars, procVars, Refresh, RefreshRaises, Holds, Finished, Ended, StatusAfter
  <2>24. CASE ReadRow
        BY <2>24 DEF ReadRow, ownerVars, procVars
  <2>25. CASE ReadOutputs
        BY <2>25 DEF ReadOutputs, ownerVars, procVars
  <2>30. CASE ReadStatus
        BY <2>30 DEF ReadStatus, ownerVars, procVars
  <2>31. CASE Reconnect
        BY <2>31 DEF Reconnect, ownerVars, procVars
  <2>26. CASE LeaseExpires
        BY <2>26 DEF LeaseExpires, ownerVars, procVars
  <2>27. CASE TimeoutPasses
        BY <2>27 DEF TimeoutPasses, ownerVars, procVars
  <2>28. CASE OwnerDies
        BY <2>28 DEF OwnerDies, ownerVars, procVars
  <2>29. CASE UNCHANGED nativeVars
        BY <2>29 DEF nativeVars
  <2> QED BY <2>1, <2>2, <2>3, <2>4, <2>5, <2>6, <2>7, <2>8, <2>9, <2>10,
             <2>11, <2>12, <2>13, <2>14, <2>15, <2>16, <2>17, <2>18, <2>19,
             <2>20, <2>21, <2>22, <2>23, <2>24, <2>25, <2>26, <2>27, <2>28,
             <2>29, <2>30, <2>31 DEF Next
<1> QED BY <1>1, <1>2, RowTypes, PTL DEF Spec

(***************************************************************************)
(* exited, stopped and timed_out mean that no process is left behind.      *)
(***************************************************************************)
THEOREM GoneTheorem == Spec => []EndMeansGone
BY GoneInvariant, PTL DEF GoneInv

(***************************************************************************)
(* No step rewrites a terminal row.                                        *)
(***************************************************************************)
LEMMA RowStays ==
    ASSUME RowOK, GoneInv, [Next]_nativeVars
    PROVE  row.status \in Terminal
             => row'.status = row.status /\ row'.by = row.by
<1> SUFFICES ASSUME row.status \in Terminal
               PROVE  row'.status = row.status /\ row'.by = row.by
      OBVIOUS
<1> USE DEF RowOK, RowType, RowStatuses, GoneInv, Terminal
<1>1. CASE Write
      BY <1>1 DEF Write, ownerVars, procVars
<1>2. CASE Exit
      BY <1>2 DEF Exit, ownerVars, procVars
<1>3. CASE Spawn
      BY <1>3 DEF Spawn, ownerVars, procVars
<1>4. CASE Persist
      BY <1>4 DEF Persist, ownerVars, procVars
<1>5. CASE PersistFails
      BY <1>5 DEF PersistFails, ownerVars, procVars
<1>6. CASE Append
      BY <1>6 DEF Append, ownerVars, procVars
<1>7. CASE AppendFails
      BY <1>7 DEF AppendFails, ownerVars, procVars
<1>8. CASE Drained
      BY <1>8 DEF Drained, ownerVars, procVars
<1>9. CASE OwnerLooks
      BY <1>9 DEF OwnerLooks, ownerVars, procVars, Refresh, RefreshRaises, Holds, Finished, Ended, StatusAfter
<1>10. CASE SupWakes
      BY <1>10 DEF SupWakes, ownerVars, procVars, Refresh, RefreshRaises, Holds, Finished, Ended, StatusAfter
<1>11. CASE SupBeats
      BY <1>11 DEF SupBeats, ownerVars, procVars
<1>12. CASE SupFails
      BY <1>12 DEF SupFails, ownerVars, procVars
<1>13. CASE SupSleeps
      BY <1>13 DEF SupSleeps, ownerVars, procVars
<1>14. CASE SupCondemns
      BY <1>14 DEF SupCondemns, ownerVars, procVars
<1>15. CASE SupKills
      BY <1>15 DEF SupKills, ownerVars, procVars
<1>16. CASE SupReports
      BY <1>16 DEF SupReports, ownerVars, procVars, Refresh, RefreshRaises, Holds, Finished, Ended, StatusAfter
<1>17. CASE StopBegins
      BY <1>17 DEF StopBegins, ownerVars, procVars, Requested
<1>18. CASE StopKills
      BY <1>18 DEF StopKills, ownerVars, procVars
<1>19. CASE StopReports
      BY <1>19 DEF StopReports, ownerVars, procVars, Refresh, RefreshRaises, Holds, Finished, Ended, StatusAfter
<1>20. CASE ForeignStop
      BY <1>20 DEF ForeignStop, ownerVars, procVars, Requested
<1>21. CASE RecLooks
      BY <1>21 DEF RecLooks, ownerVars, procVars, Answers
<1>22. CASE RecWrites
      BY <1>22 DEF RecWrites, ownerVars, procVars, Recoverable
<1>23. CASE ReadAtOwner
      BY <1>23 DEF ReadAtOwner, ownerVars, procVars, Refresh, RefreshRaises, Holds, Finished, Ended, StatusAfter
<1>24. CASE ReadRow
      BY <1>24 DEF ReadRow, ownerVars, procVars
<1>25. CASE ReadOutputs
      BY <1>25 DEF ReadOutputs, ownerVars, procVars
<1>30. CASE ReadStatus
      BY <1>30 DEF ReadStatus, ownerVars, procVars
<1>31. CASE Reconnect
      BY <1>31 DEF Reconnect, ownerVars, procVars
<1>26. CASE LeaseExpires
      BY <1>26 DEF LeaseExpires, ownerVars, procVars
<1>27. CASE TimeoutPasses
      BY <1>27 DEF TimeoutPasses, ownerVars, procVars
<1>28. CASE OwnerDies
      BY <1>28 DEF OwnerDies, ownerVars, procVars
<1>29. CASE UNCHANGED nativeVars
      BY <1>29 DEF nativeVars
<1> QED BY <1>1, <1>2, <1>3, <1>4, <1>5, <1>6, <1>7, <1>8, <1>9, <1>10, <1>11,
           <1>12, <1>13, <1>14, <1>15, <1>16, <1>17, <1>18, <1>19, <1>20,
           <1>21, <1>22, <1>23, <1>24, <1>25, <1>26, <1>27, <1>28,
           <1>29, <1>30, <1>31 DEF Next

(***************************************************************************)
(* A terminal row is never rewritten, whoever races whom to end it.        *)
(***************************************************************************)
THEOREM OnceWrittenTheorem == Spec => EndIsWrittenOnce
<1>1. ASSUME RowOK, GoneInv, [Next]_nativeVars
      PROVE  [row.status \in Terminal
                => row'.status = row.status /\ row'.by = row.by]_nativeVars
      BY <1>1, RowStays
<1> QED BY <1>1, RowTypes, GoneInvariant, PTL DEF Spec, EndIsWrittenOnce

-----------------------------------------------------------------------------
(***************************************************************************)
(* Who may say exited.  The owner only after its reader is done or dead,   *)
(* in its memory as in the row; a snapshot it took over from the row after *)
(* it was fenced only if recovery wrote it or the reader had ended.  And   *)
(* its server ends a stream only when its record has ended.                *)
(***************************************************************************)
ThreadInv ==
    /\ owner = "up" => reader \in {"reading", "done", "failed"}
    /\ owner \in {"idle", "starting"} => reader = "none"
    /\ reader = "done" => os = "gone" /\ read = made
    /\ row.by = "recovery" => row.status \in Terminal
    /\ row.status = "exited" => row.by = "recovery" \/ reader \in {"done", "failed"}
    /\ row.status \in {"interrupted", "unknown"} => row.by = "recovery"
    /\ sup.at = "decides" /\ sup.status # "running"
         => sup.status = row.status /\ row.status \in Terminal
    /\ sup.at \in {"kills", "reports"} /\ sup.verdict = "fence"
         => sup.status = row.status /\ row.status \in Terminal
    /\ ref.exit = "open" => ref.status \in {"running", "stopped", "timed_out"}
    /\ ref.status = "exited" => row.by = "recovery" \/ reader \in {"done", "failed"}
    /\ ref.status \in {"interrupted", "unknown"} => row.by = "recovery"
    /\ client.read = "exited" => row.status = "exited"
    /\ client.status = "exited" => row.by = "recovery" \/ reader \in {"done", "failed"}
    /\ client.at = "ended" => ref.status # "running"

LEMMA ThreadInvariant == Spec => []ThreadInv
<1>1. Init => ThreadInv
      BY DEF Init, ThreadInv, NoRow, Thread, Sup
<1>2. ASSUME RowOK, GoneInv, ThreadInv, [Next]_nativeVars PROVE ThreadInv'
  <2> USE <1>2 DEF RowOK, RowType, RowStatuses, GoneInv, EndMeansGone, Terminal, ThreadInv
  <2>1. CASE Write
        BY <2>1 DEF Write, ownerVars, procVars
  <2>2. CASE Exit
        BY <2>2 DEF Exit, ownerVars, procVars
  <2>3. CASE Spawn
        BY <2>3 DEF Spawn, ownerVars, procVars
  <2>4. CASE Persist
        BY <2>4 DEF Persist, Thread, Sup, NoRow, ownerVars, procVars
  <2>5. CASE PersistFails
        BY <2>5 DEF PersistFails, ownerVars, procVars
  <2>6. CASE Append
        BY <2>6 DEF Append, ownerVars, procVars
  <2>7. CASE AppendFails
        BY <2>7 DEF AppendFails, ownerVars, procVars
  <2>8. CASE Drained
        BY <2>8 DEF Drained, ownerVars, procVars
  <2>9. CASE OwnerLooks
        BY <2>9 DEF OwnerLooks, Refresh, RefreshRaises, Holds, Finished, Ended, StatusAfter, ownerVars, procVars
  <2>10. CASE SupWakes
        BY <2>10 DEF SupWakes, Refresh, RefreshRaises, Holds, Finished, Ended, StatusAfter, Thread, Sup, NoRow, ownerVars, procVars
  <2>11. CASE SupBeats
        BY <2>11 DEF SupBeats, Sup, ownerVars, procVars
  <2>12. CASE SupFails
        BY <2>12 DEF SupFails, Thread, Sup, NoRow, ownerVars, procVars
  <2>13. CASE SupSleeps
        BY <2>13 DEF SupSleeps, Thread, Sup, NoRow, ownerVars, procVars
  <2>14. CASE SupCondemns
    <3>1. Verdict \in {"fence", "stopped", "timed_out"}
        BY <2>14 DEF SupCondemns, Verdict
    <3>2. /\ sup' = Sup(IF os = "alive" \/ Verdict = "fence" THEN "kills" ELSE "reports",
                        sup, Verdict)
          /\ ref' = IF Verdict = "fence" THEN ref ELSE [ref EXCEPT !.status = Verdict]
          /\ os' = os /\ made' = made /\ row' = row /\ owner' = owner
          /\ reader' = reader /\ read' = read /\ client' = client
        BY <2>14 DEF SupCondemns, procVars
    <3>3. CASE Verdict = "fence"
      <4>1. sup.at = "decides" /\ sup.status # "running"
          BY <2>14, <3>3 DEF SupCondemns, Verdict
      <4>2. sup'.at = "kills" /\ sup'.verdict = "fence" /\ sup'.status = sup.status /\ ref' = ref
          BY <3>2, <3>3 DEF Sup
      <4>3. sup'.status = row'.status /\ row'.status \in Terminal
          BY <3>2, <4>1, <4>2
      <4> QED BY <3>2, <4>2, <4>3
    <3>4. CASE Verdict # "fence"
      <4>1. sup'.at \in {"kills", "reports"} /\ sup'.verdict # "fence"
          BY <3>2, <3>4 DEF Sup
      <4>2. ref'.status \in {"stopped", "timed_out"} /\ ref'.exit = ref.exit
          BY <3>1, <3>2, <3>4
      <4> QED BY <3>2, <4>1, <4>2
    <3> QED BY <3>3, <3>4
  <2>15. CASE SupKills
        BY <2>15 DEF SupKills, Sup, ownerVars, procVars
  <2>16. CASE SupReports
        BY <2>16 DEF SupReports, Refresh, RefreshRaises, Holds, Finished, Ended, StatusAfter, Thread, Sup, NoRow, ownerVars, procVars
  <2>17. CASE StopBegins
        BY <2>17 DEF StopBegins, Requested, ownerVars, procVars
  <2>18. CASE StopKills
        BY <2>18 DEF StopKills, ownerVars, procVars
  <2>19. CASE StopReports
        BY <2>19 DEF StopReports, Refresh, RefreshRaises, Holds, Finished, Ended, StatusAfter, ownerVars, procVars
  <2>20. CASE ForeignStop
        BY <2>20 DEF ForeignStop, Requested, ownerVars, procVars
  <2>21. CASE RecLooks
        BY <2>21 DEF RecLooks, ownerVars, procVars
  <2>22. CASE RecWrites
        BY <2>22 DEF RecWrites, Recoverable, Recovered, Ended, ownerVars, procVars
  <2>23. CASE ReadAtOwner
        BY <2>23 DEF ReadAtOwner, Refresh, RefreshRaises, Holds, Finished, Ended, StatusAfter, Shown, ownerVars, procVars
  <2>24. CASE ReadRow
        BY <2>24 DEF ReadRow, ownerVars, procVars
  <2>25. CASE ReadOutputs
        BY <2>25 DEF ReadOutputs, Shown, ownerVars, procVars
  <2>30. CASE ReadStatus
        BY <2>30 DEF ReadStatus, ownerVars, procVars
  <2>31. CASE Reconnect
        BY <2>31 DEF Reconnect, ownerVars, procVars
  <2>26. CASE LeaseExpires
        BY <2>26 DEF LeaseExpires, ownerVars, procVars
  <2>27. CASE TimeoutPasses
        BY <2>27 DEF TimeoutPasses, ownerVars, procVars
  <2>28. CASE OwnerDies
        BY <2>28 DEF OwnerDies, Thread, Sup, NoRow, ownerVars, procVars
  <2>29. CASE UNCHANGED nativeVars
        BY <2>29 DEF nativeVars
  <2> QED BY <2>1, <2>2, <2>3, <2>4, <2>5, <2>6, <2>7, <2>8, <2>9, <2>10,
             <2>11, <2>12, <2>13, <2>14, <2>15, <2>16, <2>17, <2>18, <2>19,
             <2>20, <2>21, <2>22, <2>23, <2>24, <2>25, <2>26, <2>27, <2>28,
             <2>29, <2>30, <2>31 DEF Next
<1> QED BY <1>1, <1>2, RowTypes, GoneInvariant, PTL DEF Spec

-----------------------------------------------------------------------------
(***************************************************************************)
(* The chunks that are kept of the first n, and what a client with a       *)
(* cursor finds new among them, when those of `lost' are not there.        *)
(***************************************************************************)
Kept(n) == {c \in 1 .. n : c + MaxOutputChunks > n}
New(n, lost, cursor) == {c \in Kept(n) \ lost : c > cursor}

LEMMA LeastIsMin ==
    ASSUME NEW S \in SUBSET Nat, S # {}
    PROVE  Min(S) \in S /\ \A c \in S : Min(S) <= c
<1> DEFINE R == OpToRel(<, Nat)
<1>1. IsWellFoundedOn(R, Nat)
    BY NatLessThanWellFounded
<1>2. \A x \in Nat, y \in Nat : y < x => <<y, x>> \in R
    BY DEF OpToRel
<1> HIDE DEF R
<1>3. \E x \in S : \A y \in S : ~(<<y, x>> \in R)
    BY <1>1, WFMin
<1>4. \E x \in S : \A y \in S : x <= y
  <2>1. PICK x \in S : \A y \in S : ~(<<y, x>> \in R)
      BY <1>3
  <2>2. \A y \in S : ~(y < x)
      BY <1>2, <2>1
  <2> QED BY <2>2
<1> QED BY <1>4 DEF Min

\* The last of the new chunks is the last that is kept.
LEMMA NewIsLast ==
    ASSUME NEW n \in Nat, NEW lost, n = 0 \/ n \notin lost, NEW cursor \in Nat
    PROVE  /\ New(n, lost, cursor) = {} => cursor >= n
           /\ New(n, lost, cursor) # {} => n > cursor /\ Max(New(n, lost, cursor)) = n
<1> DEFINE new == New(n, lost, cursor)
<1>1. n > cursor => n \in new
    BY DEF New, Kept
<1>2. \A c \in new : c \in Int /\ c > cursor /\ n >= c
    BY DEF New, Kept
<1>3. ASSUME n > cursor PROVE Max(new) = n
  <2>1. n \in new /\ \A c \in new : n >= c
      BY <1>1, <1>2, <1>3
  <2>2. \A m \in new : (\A c \in new : m >= c) => m = n
      BY <1>2, <2>1
  <2> QED BY <2>1, <2>2 DEF Max
<1> QED BY <1>1, <1>2, <1>3

\* Without an announced truncation nothing between the cursor and the end is
\* missing but what was lost.
LEMMA NewHasNoHole ==
    ASSUME NEW n \in Nat, NEW lost, NEW cursor \in Nat,
           New(n, lost, cursor) # {}, ~Missed(cursor, New(n, lost, cursor))
    PROVE  ((cursor + 1) .. n) \ New(n, lost, cursor) \subseteq lost
<1> DEFINE m == Min(New(n, lost, cursor))
<1>1. m \in New(n, lost, cursor)
  <2>1. New(n, lost, cursor) \in SUBSET Nat
      BY DEF New, Kept
  <2> QED BY <2>1, LeastIsMin
<1>2. m \in Nat /\ m + MaxOutputChunks > n
    BY <1>1 DEF New, Kept
<1>3. m <= cursor + 1
    BY <1>2 DEF Missed
<1>4. \A c \in (cursor + 1) .. n : c \notin lost => c \in New(n, lost, cursor)
    BY <1>2, <1>3 DEF New, Kept
<1> QED BY <1>4

-----------------------------------------------------------------------------
(***************************************************************************)
(* The counts: the table keeps the end of what was read up to the last     *)
(* chunk it took, without those it refused, and no client is ahead of what *)
(* was read.  Readers that failed have lost a chunk to the table.          *)
(***************************************************************************)
ClientPlaces == {"idle", "outputs", "status", "ended", "cut"}
ClientType == [at : ClientPlaces, cursor : Nat, got : SUBSET Nat,
               told : {"all", "truncated"}, read : RowStatuses,
               status : RowStatuses]

Taken(m) ==
    /\ stored = Kept(m) \ unstored
    /\ m = 0 \/ m \notin unstored
    /\ (m + 1) .. read \subseteq unstored

CountInv ==
    /\ made \in 0 .. ChunkBound
    /\ read \in 0 .. made
    /\ unstored \subseteq 1 .. read
    /\ reader = "failed" => unstored # {}
    /\ \E m \in 0 .. read : Taken(m)
    /\ client \in ClientType
    /\ client.cursor <= read
    /\ client.got \subseteq 1 .. read

LEMMA ShownFollows ==
    ASSUME CountInv, NEW n \in 0 .. read, NEW lost \in SUBSET unstored,
           n = 0 \/ n \notin lost,
           NEW status \in RowStatuses, NEW at \in ClientPlaces,
           client' = Shown(Kept(n) \ lost, status, at)
    PROVE  /\ client' \in ClientType
           /\ client'.cursor <= read /\ client'.got \subseteq 1 .. read
           /\ client.cursor <= n => client'.cursor = n
           /\ HolesAreTold
                => (client'.told = "all"
                      => (1 .. client'.cursor) \ client'.got \subseteq unstored)
<1> DEFINE new == New(n, lost, client.cursor)
<1>1. n \in Nat /\ n <= read /\ read \in Nat /\ client.cursor \in Nat /\ client.got \subseteq Nat
    BY DEF CountInv, ClientType
<1>2. client' = [at |-> at, read |-> "running", status |-> status,
                 got |-> client.got \cup new,
                 told |-> IF Missed(client.cursor, new) THEN "truncated" ELSE client.told,
                 cursor |-> IF new = {} THEN client.cursor ELSE Max(new)]
    BY DEF Shown, New
<1>3. new \subseteq 1 .. read
    BY <1>1 DEF New, Kept
<1>4. CASE new = {}
  <2>1. client'.cursor = client.cursor /\ client'.got = client.got /\ client'.told = client.told
      BY <1>2, <1>4 DEF Missed
  <2>2. client.cursor >= n
      BY <1>1, <1>4, NewIsLast
  <2>3. client' \in ClientType
      BY <1>1, <1>2, <2>1 DEF CountInv, ClientType, RowStatuses, ClientPlaces
  <2> QED BY <1>1, <1>2, <2>1, <2>2, <2>3 DEF CountInv, HolesAreTold
<1>5. CASE new # {}
  <2>1. n > client.cursor /\ Max(new) = n
      BY <1>1, <1>5, NewIsLast
  <2>2. client'.cursor = n /\ client'.got = client.got \cup new
      BY <1>2, <1>5, <2>1
  <2>3. client' \in ClientType
      BY <1>1, <1>2, <1>3, <2>2 DEF CountInv, ClientType, RowStatuses, ClientPlaces
  <2>4. client'.got \subseteq 1 .. read
      BY <1>3, <2>2 DEF CountInv
  <2>5. ASSUME HolesAreTold, client'.told = "all"
        PROVE  (1 .. client'.cursor) \ client'.got \subseteq unstored
    <3>1. ~Missed(client.cursor, new) /\ client.told = "all"
        BY <1>2, <2>5
    <3>2. ((client.cursor + 1) .. n) \ new \subseteq lost
        BY <1>1, <1>5, <3>1, NewHasNoHole
    <3>3. (1 .. client.cursor) \ client.got \subseteq unstored
        BY <2>5, <3>1 DEF HolesAreTold
    <3>4. \A c \in 1 .. n : c \in 1 .. client.cursor \/ c \in (client.cursor + 1) .. n
        BY <1>1
    <3> HIDE DEF new
    <3> QED BY <2>2, <3>2, <3>3, <3>4
  <2> QED BY <1>1, <1>2, <2>1, <2>2, <2>3, <2>4, <2>5
<1> QED BY <1>4, <1>5

\* What a client is shown is a prefix of the output without what the table
\* refused: all that was read, if it refused nothing.
LEMMA ClientReads ==
    ASSUME RowOK, CountInv, ReadAtOwner \/ ReadOutputs
    PROVE  \E n \in 0 .. read, lost \in SUBSET unstored,
              status \in RowStatuses, at \in ClientPlaces :
             /\ client' = Shown(Kept(n) \ lost, status, at)
             /\ n = 0 \/ n \notin lost
             /\ unstored = {} => n = read
<1> USE DEF CountInv
<1>1. CASE ReadAtOwner
  <2>1. InMemory = Kept(read) \ {} /\ read \in 0 .. read
      BY DEF InMemory, Kept
  <2>2. ref.status \in RowStatuses /\ ref'.status \in RowStatuses
      BY <1>1 DEF ReadAtOwner, Refresh, StatusAfter, RowOK, RowType, RowStatuses
  <2>3. PICK status \in {ref.status, ref'.status} :
          client' = Shown(InMemory, status,
                          IF ref'.status = "running" THEN "idle" ELSE "ended")
      BY <1>1 DEF ReadAtOwner
  <2>4. PICK at \in ClientPlaces : client' = Shown(InMemory, status, at)
      BY <2>3 DEF ClientPlaces
  <2>5. status \in RowStatuses /\ {} \in SUBSET unstored
      BY <2>2, <2>3
  <2> QED BY <2>1, <2>4, <2>5
<1>2. CASE ReadOutputs
  <2>1. client' = Shown(stored, client.read, "status") /\ client.read \in RowStatuses
      BY <1>2 DEF ReadOutputs, ClientType
  <2>2. PICK m \in 0 .. read : Taken(m)
      OBVIOUS
  <2>3. unstored = {} => m = read
      BY <2>2 DEF Taken
  <2>4. "status" \in ClientPlaces /\ unstored \in SUBSET unstored
      BY DEF ClientPlaces
  <2> QED BY <2>1, <2>2, <2>3, <2>4 DEF Taken
<1> QED BY <1>1, <1>2

LEMMA CountInvariant == Spec => []CountInv
<1>1. Init => CountInv
  <2>1. Kept(0) = {}
      BY DEF Kept
  <2>2. ASSUME Init PROVE Taken(0) /\ client \in ClientType
      BY <2>1, <2>2 DEF Init, Taken, ClientType, ClientPlaces, RowStatuses
  <2> QED
    <3>1. ASSUME Init PROVE CountInv
      <4>1. Taken(0) /\ client \in ClientType
          BY <3>1, <2>2
      <4>2. made = 0 /\ read = 0 /\ unstored = {} /\ reader = "none"
            /\ client.cursor = 0 /\ client.got = {}
          BY <3>1 DEF Init
      <4>3. \E m \in 0 .. read : Taken(m)
          BY <4>1, <4>2
      <4> QED BY <4>1, <4>2, <4>3 DEF CountInv
    <3> QED BY <3>1
<1>2. ASSUME RowOK, ThreadInv, CountInv, [Next]_nativeVars PROVE CountInv'
  <2> USE <1>2 DEF CountInv
  <2>1. CASE Write
        BY <2>1 DEF Write, Taken, ownerVars, procVars
  <2>2. CASE Exit
        BY <2>2 DEF Exit, Taken, ownerVars, procVars
  <2>3. CASE Spawn
        BY <2>3 DEF Spawn, Taken, ownerVars, procVars
  <2>4. CASE Persist
        BY <2>4 DEF Persist, Taken, ownerVars, procVars
  <2>5. CASE PersistFails
        BY <2>5 DEF PersistFails, Taken, ownerVars, procVars
  <2>6. CASE Append
    <3>1. /\ read' = read + 1 /\ made' = made /\ read < made
          /\ stored' = Pruned(read + 1) /\ UNCHANGED client
          /\ reader = "reading" /\ reader' = reader /\ owner = "up" /\ owner' = owner
        BY <2>6 DEF Append, procVars
    <3>0. PICK n \in Nat : n = read + 1
        OBVIOUS
    <3>2. Taken(n)'
      <4>1. PICK m \in 0 .. read : Taken(m)
          OBVIOUS
      <4>2. unstored' = unstored /\ read + 1 \notin unstored
          BY <2>6 DEF Append
      <4>3. \A c \in 1 .. read : c + MaxOutputChunks > read + 1 /\ c \notin unstored
                                   => c \in stored
          BY <4>1 DEF Taken, Kept
      <4>4. Pruned(read + 1) = Kept(read + 1) \ unstored
          BY <4>1, <4>2, <4>3 DEF Taken, Pruned, Kept
      <4>5. (n + 1) .. read' = {}
          BY <3>0, <3>1
      <4> QED BY <3>0, <3>1, <4>2, <4>4, <4>5 DEF Taken
    <3>3. read' \in 0 .. made' /\ made' \in 0 .. ChunkBound /\ read <= read'
        BY <3>1
    <3>4. client'.cursor <= read' /\ client'.got \subseteq 1 .. read'
        BY <3>1, <3>3 DEF ClientType
    <3>5. unstored' = unstored /\ unstored' \subseteq 1 .. read' /\ read' = read + 1
        BY <2>6, <3>1 DEF Append
    <3>6. n \in 0 .. read'
        BY <3>0, <3>5
    <3> QED BY <3>1, <3>2, <3>3, <3>4, <3>5, <3>6
  <2>7. CASE AppendFails
    <3>1. /\ read' = read + 1 /\ made' = made /\ read < made
          /\ stored' = stored /\ UNCHANGED client
          /\ unstored' = unstored \cup {read + 1}
        BY <2>7 DEF AppendFails, procVars
    <3>2. PICK m \in 0 .. read : Taken(m)
        OBVIOUS
    <3>3. Taken(m)'
      <4>1. read + 1 \notin Kept(m) /\ m # read + 1
          BY DEF Kept
      <4>2. (m + 1) .. read' \subseteq unstored'
          BY <3>1, <3>2 DEF Taken
      <4> QED BY <3>1, <3>2, <4>1, <4>2 DEF Taken
    <3>4. read' \in 0 .. made' /\ made' \in 0 .. ChunkBound /\ read <= read'
        BY <3>1
    <3>5. client'.cursor <= read' /\ client'.got \subseteq 1 .. read'
        BY <3>1, <3>4 DEF ClientType
    <3>6. m \in 0 .. read' /\ unstored' \subseteq 1 .. read' /\ unstored' # {}
        BY <3>1, <3>4
    <3> QED BY <3>1, <3>3, <3>4, <3>5, <3>6
  <2>8. CASE Drained
        BY <2>8 DEF Drained, Taken, ownerVars, procVars
  <2>9. CASE OwnerLooks
        BY <2>9 DEF OwnerLooks, Taken, ownerVars, procVars
  <2>10. CASE SupWakes
        BY <2>10 DEF SupWakes, Taken, ownerVars, procVars
  <2>11. CASE SupBeats
        BY <2>11 DEF SupBeats, Taken, ownerVars, procVars
  <2>12. CASE SupFails
        BY <2>12 DEF SupFails, Taken, ownerVars, procVars
  <2>13. CASE SupSleeps
        BY <2>13 DEF SupSleeps, Taken, ownerVars, procVars
  <2>14. CASE SupCondemns
        BY <2>14 DEF SupCondemns, Taken, ownerVars, procVars
  <2>15. CASE SupKills
        BY <2>15 DEF SupKills, Taken, ownerVars, procVars
  <2>16. CASE SupReports
        BY <2>16 DEF SupReports, Taken, ownerVars, procVars
  <2>17. CASE StopBegins
        BY <2>17 DEF StopBegins, Taken, ownerVars, procVars
  <2>18. CASE StopKills
        BY <2>18 DEF StopKills, Taken, ownerVars, procVars
  <2>19. CASE StopReports
        BY <2>19 DEF StopReports, Taken, ownerVars, procVars
  <2>20. CASE ForeignStop
        BY <2>20 DEF ForeignStop, Taken, ownerVars, procVars
  <2>21. CASE RecLooks
        BY <2>21 DEF RecLooks, Taken, ownerVars, procVars
  <2>22. CASE RecWrites
        BY <2>22 DEF RecWrites, Taken, ownerVars, procVars
  <2>23. CASE ReadAtOwner
    <3>1. PICK n \in 0 .. read, lost \in SUBSET unstored,
               status \in RowStatuses, at \in ClientPlaces :
            /\ client' = Shown(Kept(n) \ lost, status, at)
            /\ n = 0 \/ n \notin lost
        BY <2>23, ClientReads
    <3>2. client' \in ClientType /\ client'.cursor <= read /\ client'.got \subseteq 1 .. read
        BY <3>1, ShownFollows
    <3>3. UNCHANGED <<made, read, unstored, stored, reader>>
        BY <2>23 DEF ReadAtOwner, ownerVars, procVars
    <3> QED BY <3>2, <3>3 DEF Taken
  <2>24. CASE ReadRow
    <3>1. client' = [client EXCEPT !.at = "outputs", !.read = row.status]
        BY <2>24 DEF ReadRow
    <3>2. client' \in ClientType /\ client'.cursor = client.cursor /\ client'.got = client.got
        BY <3>1 DEF ClientType, ClientPlaces, RowOK, RowType
    <3>3. UNCHANGED <<made, read, unstored, stored, reader>>
        BY <2>24 DEF ReadRow, ownerVars, procVars
    <3> QED BY <3>2, <3>3 DEF Taken
  <2>25. CASE ReadOutputs
    <3>1. PICK n \in 0 .. read, lost \in SUBSET unstored,
               status \in RowStatuses, at \in ClientPlaces :
            /\ client' = Shown(Kept(n) \ lost, status, at)
            /\ n = 0 \/ n \notin lost
        BY <2>25, ClientReads
    <3>2. client' \in ClientType /\ client'.cursor <= read /\ client'.got \subseteq 1 .. read
        BY <3>1, ShownFollows
    <3>3. UNCHANGED <<made, read, unstored, stored, reader>>
        BY <2>25 DEF ReadOutputs, ownerVars, procVars
    <3> QED BY <3>2, <3>3 DEF Taken
  <2>30. CASE ReadStatus
    <3>1. PICK at \in {"idle", "cut"} : client' = [client EXCEPT !.at = at]
        BY <2>30 DEF ReadStatus
    <3>2. client' \in ClientType /\ client'.cursor = client.cursor /\ client'.got = client.got
        BY <3>1 DEF ClientType, ClientPlaces
    <3>3. UNCHANGED <<made, read, unstored, stored, reader>>
        BY <2>30 DEF ReadStatus, ownerVars, procVars
    <3> QED BY <3>2, <3>3 DEF Taken
  <2>31. CASE Reconnect
    <3>1. client' = [client EXCEPT !.at = "idle", !.read = "running"]
        BY <2>31 DEF Reconnect
    <3>2. client' \in ClientType /\ client'.cursor = client.cursor /\ client'.got = client.got
        BY <3>1 DEF ClientType, ClientPlaces, RowStatuses
    <3>3. UNCHANGED <<made, read, unstored, stored, reader>>
        BY <2>31 DEF Reconnect, ownerVars, procVars
    <3> QED BY <3>2, <3>3 DEF Taken
  <2>26. CASE LeaseExpires
        BY <2>26 DEF LeaseExpires, Taken, ownerVars, procVars
  <2>27. CASE TimeoutPasses
        BY <2>27 DEF TimeoutPasses, Taken, ownerVars, procVars
  <2>28. CASE OwnerDies
    <3>1. UNCHANGED <<made, read, unstored, stored, client>>
        BY <2>28 DEF OwnerDies, ownerVars, procVars
    <3>2. reader' = "failed" => reader = "failed"
        BY <2>28 DEF OwnerDies
    <3> QED BY <3>1, <3>2 DEF Taken
  <2>29. CASE UNCHANGED nativeVars
        BY <2>29 DEF Taken, nativeVars
  <2> QED BY <2>1, <2>2, <2>3, <2>4, <2>5, <2>6, <2>7, <2>8, <2>9, <2>10,
             <2>11, <2>12, <2>13, <2>14, <2>15, <2>16, <2>17, <2>18, <2>19,
             <2>20, <2>21, <2>22, <2>23, <2>24, <2>25, <2>26, <2>27, <2>28,
             <2>29, <2>30, <2>31 DEF Next
<1> QED BY <1>1, <1>2, RowTypes, ThreadInvariant, PTL DEF Spec

-----------------------------------------------------------------------------
LEMMA ShownHasNoHole ==
    ASSUME RowOK, CountInv, HolesAreTold, ReadAtOwner \/ ReadOutputs
    PROVE  HolesAreTold'
<1>1. PICK n \in 0 .. read, lost \in SUBSET unstored,
           status \in RowStatuses, at \in ClientPlaces :
        /\ client' = Shown(Kept(n) \ lost, status, at)
        /\ n = 0 \/ n \notin lost
    BY ClientReads
<1>2. unstored' = unstored
    BY DEF ReadAtOwner, ReadOutputs, ownerVars
<1> QED BY <1>1, <1>2, ShownFollows DEF HolesAreTold

(***************************************************************************)
(* Whatever is pruned between a client's reads, a hole in what it was      *)
(* given has been announced to it.                                         *)
(***************************************************************************)
THEOREM HolesTheorem == Spec => []HolesAreTold
<1>1. Init => HolesAreTold
    BY DEF Init, HolesAreTold
<1>2. ASSUME RowOK, CountInv, HolesAreTold, [Next]_nativeVars PROVE HolesAreTold'
  <2> USE <1>2 DEF HolesAreTold
  <2>1. CASE Write
        BY <2>1 DEF Write, ownerVars, procVars
  <2>2. CASE Exit
        BY <2>2 DEF Exit, ownerVars, procVars
  <2>3. CASE Spawn
        BY <2>3 DEF Spawn, ownerVars, procVars
  <2>4. CASE Persist
        BY <2>4 DEF Persist, ownerVars, procVars
  <2>5. CASE PersistFails
        BY <2>5 DEF PersistFails, ownerVars, procVars
  <2>6. CASE Append
        BY <2>6 DEF Append, ownerVars, procVars
  <2>7. CASE AppendFails
        BY <2>7 DEF AppendFails, ownerVars, procVars
  <2>8. CASE Drained
        BY <2>8 DEF Drained, ownerVars, procVars
  <2>9. CASE OwnerLooks
        BY <2>9 DEF OwnerLooks, ownerVars, procVars
  <2>10. CASE SupWakes
        BY <2>10 DEF SupWakes, ownerVars, procVars
  <2>11. CASE SupBeats
        BY <2>11 DEF SupBeats, ownerVars, procVars
  <2>12. CASE SupFails
        BY <2>12 DEF SupFails, ownerVars, procVars
  <2>13. CASE SupSleeps
        BY <2>13 DEF SupSleeps, ownerVars, procVars
  <2>14. CASE SupCondemns
        BY <2>14 DEF SupCondemns, ownerVars, procVars
  <2>15. CASE SupKills
        BY <2>15 DEF SupKills, ownerVars, procVars
  <2>16. CASE SupReports
        BY <2>16 DEF SupReports, ownerVars, procVars
  <2>17. CASE StopBegins
        BY <2>17 DEF StopBegins, ownerVars, procVars
  <2>18. CASE StopKills
        BY <2>18 DEF StopKills, ownerVars, procVars
  <2>19. CASE StopReports
        BY <2>19 DEF StopReports, ownerVars, procVars
  <2>20. CASE ForeignStop
        BY <2>20 DEF ForeignStop, ownerVars, procVars
  <2>21. CASE RecLooks
        BY <2>21 DEF RecLooks, ownerVars, procVars
  <2>22. CASE RecWrites
        BY <2>22 DEF RecWrites, ownerVars, procVars
  <2>23. CASE ReadAtOwner
        BY <2>23, ShownHasNoHole
  <2>24. CASE ReadRow
    <3>1. client' = [client EXCEPT !.at = "outputs", !.read = row.status]
        BY <2>24 DEF ReadRow
    <3>2. unstored' = unstored
        BY <2>24 DEF ReadRow, ownerVars
    <3> QED BY <3>1, <3>2 DEF CountInv, ClientType
  <2>25. CASE ReadOutputs
        BY <2>25, ShownHasNoHole
  <2>30. CASE ReadStatus
    <3>1. /\ client'.told = client.told /\ client'.cursor = client.cursor
          /\ client'.got = client.got /\ unstored' = unstored
        BY <2>30 DEF ReadStatus, ownerVars, CountInv, ClientType
    <3> QED BY <3>1
  <2>31. CASE Reconnect
    <3>1. /\ client'.told = client.told /\ client'.cursor = client.cursor
          /\ client'.got = client.got /\ unstored' = unstored
        BY <2>31 DEF Reconnect, ownerVars, CountInv, ClientType
    <3> QED BY <3>1
  <2>26. CASE LeaseExpires
        BY <2>26 DEF LeaseExpires, ownerVars, procVars
  <2>27. CASE TimeoutPasses
        BY <2>27 DEF TimeoutPasses, ownerVars, procVars
  <2>28. CASE OwnerDies
        BY <2>28 DEF OwnerDies, ownerVars, procVars
  <2>29. CASE UNCHANGED nativeVars
        BY <2>29 DEF nativeVars
  <2> QED BY <2>1, <2>2, <2>3, <2>4, <2>5, <2>6, <2>7, <2>8, <2>9, <2>10,
             <2>11, <2>12, <2>13, <2>14, <2>15, <2>16, <2>17, <2>18, <2>19,
             <2>20, <2>21, <2>22, <2>23, <2>24, <2>25, <2>26, <2>27, <2>28,
             <2>29, <2>30, <2>31 DEF Next
<1> QED BY <1>1, <1>2, RowTypes, CountInvariant, PTL DEF Spec

(***************************************************************************)
(* The tail: once the readers are done and the table refused nothing, a    *)
(* client that was shown an exit, or whose stream the owner has ended, has *)
(* the last chunk or was told of a truncation, unless recovery wrote the   *)
(* exit.                                                                   *)
(***************************************************************************)
HasTail == client.got = 1 .. made \/ client.told = "truncated"

TailInv ==
    /\ client.status = "exited" \/ (client.at = "ended" /\ row.status = "exited")
    /\ reader = "done" /\ unstored = {}
    => row.by = "recovery" \/ HasTail

LEMMA ShownHasTail ==
    ASSUME RowOK, ThreadInv, CountInv, HolesAreTold, ReadAtOwner \/ ReadOutputs
    PROVE  TailInv'
<1> SUFFICES ASSUME reader' = "done", unstored' = {} PROVE HasTail'
    BY DEF TailInv
<1>1. reader = "done" /\ made' = made /\ unstored = {}
    BY DEF ReadAtOwner, ReadOutputs, ownerVars, procVars
<1>2. PICK n \in 0 .. read, lost \in SUBSET unstored,
           status \in RowStatuses, at \in ClientPlaces :
        /\ client' = Shown(Kept(n) \ lost, status, at)
        /\ n = 0 \/ n \notin lost
        /\ unstored = {} => n = read
    BY ClientReads
<1>3. n = made /\ client.cursor <= n
    BY <1>1, <1>2 DEF ThreadInv, CountInv
<1>4. client' \in ClientType /\ client'.cursor = n /\ client'.got \subseteq 1 .. read
      /\ (client'.told = "all" => (1 .. client'.cursor) \ client'.got \subseteq unstored)
    BY <1>2, <1>3, ShownFollows
<1>5. read = made
    BY <1>1 DEF ThreadInv
<1>6. client'.told = "all" => client'.got = 1 .. made
    BY <1>1, <1>3, <1>4, <1>5
<1> QED BY <1>1, <1>4, <1>6 DEF ClientType, HasTail

\* Once the owner has ended a stream its record is terminal, and it writes no
\* exit any more.
LEMMA EndedRow ==
    ASSUME RowOK, ThreadInv, client.at = "ended", row.status # "exited",
           NEW terminal \in {"none", "stopped", "timed_out"}, Refresh(terminal)
    PROVE  row'.status # "exited"
<1>1. ref.status # "running"
    BY DEF ThreadInv
<1>2. CASE ref.exit = "reported"
    BY <1>2 DEF Refresh
<1>3. CASE ref.exit = "open"
  <2>1. ref.status \in {"stopped", "timed_out"}
      BY <1>1, <1>3 DEF ThreadInv
  <2>2. StatusAfter(terminal) # "exited"
      BY <2>1 DEF StatusAfter
  <2> QED BY <2>2 DEF Refresh, Finished, Ended
<1> QED BY <1>2, <1>3 DEF RowOK

LEMMA TailInvariant == Spec => []TailInv
<1>1. Init => TailInv
    BY DEF Init, TailInv
<1>2. ASSUME RowOK, GoneInv, ThreadInv, CountInv, HolesAreTold, TailInv,
             [Next]_nativeVars
      PROVE  TailInv'
  <2>1. row.by = "recovery" => row'.by = "recovery"
      BY <1>2, RowStays DEF ThreadInv
  <2> USE <1>2 DEF TailInv, HasTail
  <2>2. CASE Write
        BY <2>1, <2>2 DEF Write, ThreadInv, ownerVars, procVars
  <2>3. CASE Exit
        BY <2>3, <2>1 DEF Exit, ownerVars, procVars
  <2>4. CASE Spawn
        BY <2>4, <2>1 DEF Spawn, ownerVars, procVars
  <2>5. CASE Persist
    BY <2>5, <2>1 DEF Persist, ownerVars, procVars
  <2>6. CASE PersistFails
        BY <2>6, <2>1 DEF PersistFails, ownerVars, procVars
  <2>7. CASE Append
        BY <2>7, <2>1 DEF Append, ownerVars, procVars
  <2>8. CASE AppendFails
        BY <2>8, <2>1 DEF AppendFails, ownerVars, procVars
  <2>9. CASE Drained
    BY <2>1, <2>9 DEF Drained, ThreadInv, ownerVars, procVars
  <2>10. CASE OwnerLooks
    <3>1. Refresh("none") \/ UNCHANGED row
        BY <2>10 DEF OwnerLooks, RefreshRaises
    <3>2. client.at = "ended" /\ row.status # "exited" => row'.status # "exited"
        BY <3>1, EndedRow
    <3> QED BY <2>10, <2>1, <3>2 DEF OwnerLooks, procVars
  <2>11. CASE SupWakes
    <3>1. Refresh("none") \/ UNCHANGED row
        BY <2>11 DEF SupWakes, RefreshRaises
    <3>2. client.at = "ended" /\ row.status # "exited" => row'.status # "exited"
        BY <3>1, EndedRow
    <3> QED BY <2>11, <2>1, <3>2 DEF SupWakes, procVars
  <2>12. CASE SupBeats
    BY <2>12, <2>1 DEF SupBeats, RowOK, RowType, ownerVars, procVars
  <2>13. CASE SupFails
        BY <2>13, <2>1 DEF SupFails, ownerVars, procVars
  <2>14. CASE SupSleeps
        BY <2>14, <2>1 DEF SupSleeps, ownerVars, procVars
  <2>15. CASE SupCondemns
        BY <2>15, <2>1 DEF SupCondemns, ownerVars, procVars
  <2>16. CASE SupKills
        BY <2>16, <2>1 DEF SupKills, ownerVars, procVars
  <2>17. CASE SupReports
    <3>1. PICK terminal \in {"none", "stopped", "timed_out"} :
            Refresh(terminal) \/ UNCHANGED row
        BY <2>17 DEF SupReports, RefreshRaises, RowOK
    <3>2. client.at = "ended" /\ row.status # "exited" => row'.status # "exited"
        BY <3>1, EndedRow
    <3> QED BY <2>17, <2>1, <3>2 DEF SupReports, procVars
  <2>18. CASE StopBegins
    BY <2>18, <2>1 DEF StopBegins, Requested, RowOK, RowType, ownerVars, procVars
  <2>19. CASE StopKills
        BY <2>19, <2>1 DEF StopKills, ownerVars, procVars
  <2>20. CASE StopReports
    <3>1. PICK terminal \in {"none", "stopped", "timed_out"} :
            Refresh(terminal) \/ UNCHANGED row
        BY <2>20 DEF StopReports, RefreshRaises, RowOK
    <3>2. client.at = "ended" /\ row.status # "exited" => row'.status # "exited"
        BY <3>1, EndedRow
    <3> QED BY <2>20, <2>1, <3>2 DEF StopReports, procVars
  <2>21. CASE ForeignStop
    BY <2>21, <2>1 DEF ForeignStop, Requested, RowOK, RowType, ownerVars, procVars
  <2>22. CASE RecLooks
        BY <2>22, <2>1 DEF RecLooks, ownerVars, procVars
  <2>23. CASE RecWrites
    BY <2>23, <2>1 DEF RecWrites, Ended, ownerVars, procVars
  <2>24. CASE ReadAtOwner
        BY <2>24, ShownHasTail
  <2>25. CASE ReadRow
    <3>1. client'.status = client.status /\ client'.got = client.got /\ client'.told = client.told
          /\ client'.at = "outputs"
        BY <2>25 DEF ReadRow, CountInv, ClientType
    <3>2. UNCHANGED <<row, made, reader, unstored>>
        BY <2>25 DEF ReadRow, ownerVars, procVars
    <3> QED BY <3>1, <3>2
  <2>26. CASE ReadOutputs
        BY <2>26, ShownHasTail
  <2>31. CASE ReadStatus
    <3>1. client'.status = client.status /\ client'.got = client.got /\ client'.told = client.told
          /\ client'.at \in {"idle", "cut"}
        BY <2>31 DEF ReadStatus, CountInv, ClientType
    <3>2. UNCHANGED <<row, made, reader, unstored>>
        BY <2>31 DEF ReadStatus, ownerVars, procVars
    <3> QED BY <3>1, <3>2
  <2>32. CASE Reconnect
    <3>1. client'.status = client.status /\ client'.got = client.got /\ client'.told = client.told
          /\ client'.at \in {"idle", "cut"}
        BY <2>32 DEF Reconnect, CountInv, ClientType
    <3>2. UNCHANGED <<row, made, reader, unstored>>
        BY <2>32 DEF Reconnect, ownerVars, procVars
    <3> QED BY <3>1, <3>2
  <2>27. CASE LeaseExpires
    BY <2>27, <2>1 DEF LeaseExpires, RowOK, RowType, ownerVars, procVars
  <2>28. CASE TimeoutPasses
        BY <2>28, <2>1 DEF TimeoutPasses, ownerVars, procVars
  <2>29. CASE OwnerDies
        BY <2>29, <2>1 DEF OwnerDies, ownerVars, procVars
  <2>30. CASE UNCHANGED nativeVars
        BY <2>30 DEF nativeVars
  <2> QED BY <2>2, <2>3, <2>4, <2>5, <2>6, <2>7, <2>8, <2>9, <2>10, <2>11,
             <2>12, <2>13, <2>14, <2>15, <2>16, <2>17, <2>18, <2>19, <2>20,
             <2>21, <2>22, <2>23, <2>24, <2>25, <2>26, <2>27, <2>28, <2>29,
             <2>30, <2>31, <2>32 DEF Next
<1> QED BY <1>1, <1>2, RowTypes, GoneInvariant, ThreadInvariant, CountInvariant,
           HolesTheorem, PTL DEF Spec

(***************************************************************************)
(* No chunk of any server carries an exit its owner recorded, and the      *)
(* owner's server ends no stream by it, before the client has the last of  *)
(* the output or was told of a truncation: for any retention, any cursor,  *)
(* any reconnection and any place of the exit between the reads, if the    *)
(* table refused no chunk.                                                 *)
(***************************************************************************)
THEOREM TailTheorem == Spec => []TailIsDelivered
<1>1. RowOK /\ ThreadInv /\ CountInv /\ TailInv => TailIsDelivered
    BY DEF RowOK, RowType, ThreadInv, CountInv, TailInv, HasTail, TailIsDelivered
<1> QED BY <1>1, RowTypes, ThreadInvariant, CountInvariant, TailInvariant, PTL

-----------------------------------------------------------------------------
(***************************************************************************)
(* What is left of the types: the states of the owner and of its reader,   *)
(* the deadline and the faults that were counted.                          *)
(***************************************************************************)
OwnerTypes ==
    /\ owner \in {"idle", "starting", "up", "down"}
    /\ reader \in {"none", "reading", "done", "failed"}
    /\ late \in BOOLEAN
    /\ faults \in 0 .. FaultBound

LEMMA OwnerTyped == Spec => []OwnerTypes
<1>1. Init => OwnerTypes
  <2>1. Init => late \in BOOLEAN
      BY Zenon DEF Init
  <2>2. Init => 0 \in 0 .. FaultBound
      OBVIOUS
  <2> QED BY <2>1, <2>2, Zenon DEF Init, OwnerTypes
<1>2. ASSUME OwnerTypes, [Next]_nativeVars PROVE OwnerTypes'
  <2> USE <1>2 DEF OwnerTypes
  <2>1. CASE Write
        BY <2>1 DEF Write, ownerVars, procVars
  <2>2. CASE Exit
        BY <2>2 DEF Exit, ownerVars, procVars
  <2>3. CASE Spawn
        BY <2>3 DEF Spawn, ownerVars, procVars
  <2>4. CASE Persist
        BY <2>4 DEF Persist, ownerVars, procVars
  <2>5. CASE PersistFails
    <3>1. faults' = faults + 1 /\ faults < FaultBound
        BY <2>5 DEF PersistFails
    <3>2. faults' \in 0 .. FaultBound
        BY <3>1
    <3>3. owner' \in {"idle", "starting", "up", "down"} /\ late' = late
          /\ reader' \in {"none", "reading", "done", "failed"}
        BY <2>5 DEF PersistFails, ownerVars, procVars
    <3> QED BY <3>2, <3>3, Zenon
  <2>6. CASE Append
        BY <2>6 DEF Append, ownerVars, procVars
  <2>7. CASE AppendFails
    <3>1. faults' = faults + 1 /\ faults < FaultBound
        BY <2>7 DEF AppendFails
    <3>2. faults' \in 0 .. FaultBound
        BY <3>1
    <3>3. owner' \in {"idle", "starting", "up", "down"} /\ late' = late
          /\ reader' \in {"none", "reading", "done", "failed"}
        BY <2>7 DEF AppendFails, ownerVars, procVars
    <3> QED BY <3>2, <3>3, Zenon
  <2>8. CASE Drained
        BY <2>8 DEF Drained, ownerVars, procVars
  <2>9. CASE OwnerLooks
    <3>1. \/ faults' = faults
          \/ faults' = faults + 1 /\ faults < FaultBound
        BY <2>9 DEF OwnerLooks, Refresh, RefreshRaises
    <3>2. faults' \in 0 .. FaultBound
        BY <3>1
    <3>3. owner' = owner /\ late' = late /\ reader' = reader
        BY <2>9 DEF OwnerLooks, ownerVars, procVars
    <3> QED BY <3>2, <3>3, Zenon
  <2>10. CASE SupWakes
    <3>1. \/ faults' = faults
          \/ faults' = faults + 1 /\ faults < FaultBound
        BY <2>10 DEF SupWakes, Refresh, RefreshRaises
    <3>2. faults' \in 0 .. FaultBound
        BY <3>1
    <3>3. owner' = owner /\ late' = late /\ reader' = reader
        BY <2>10 DEF SupWakes, ownerVars, procVars
    <3> QED BY <3>2, <3>3, Zenon
  <2>11. CASE SupBeats
        BY <2>11 DEF SupBeats, ownerVars, procVars
  <2>12. CASE SupFails
    <3>1. faults' = faults + 1 /\ faults < FaultBound
        BY <2>12 DEF SupFails
    <3>2. faults' \in 0 .. FaultBound
        BY <3>1
    <3>3. owner' \in {"idle", "starting", "up", "down"} /\ late' = late
          /\ reader' \in {"none", "reading", "done", "failed"}
        BY <2>12 DEF SupFails, ownerVars, procVars
    <3> QED BY <3>2, <3>3, Zenon
  <2>13. CASE SupSleeps
        BY <2>13 DEF SupSleeps, ownerVars, procVars
  <2>14. CASE SupCondemns
        BY <2>14 DEF SupCondemns, ownerVars, procVars
  <2>15. CASE SupKills
        BY <2>15 DEF SupKills, ownerVars, procVars
  <2>16. CASE SupReports
    <3>1. \/ faults' = faults
          \/ faults' = faults + 1 /\ faults < FaultBound
        BY <2>16 DEF SupReports, Refresh, RefreshRaises
    <3>2. faults' \in 0 .. FaultBound
        BY <3>1
    <3>3. owner' = owner /\ late' = late /\ reader' = reader
        BY <2>16 DEF SupReports, ownerVars, procVars
    <3> QED BY <3>2, <3>3, Zenon
  <2>17. CASE StopBegins
        BY <2>17 DEF StopBegins, ownerVars, procVars
  <2>18. CASE StopKills
        BY <2>18 DEF StopKills, ownerVars, procVars
  <2>19. CASE StopReports
    <3>1. \/ faults' = faults
          \/ faults' = faults + 1 /\ faults < FaultBound
        BY <2>19 DEF StopReports, Refresh, RefreshRaises
    <3>2. faults' \in 0 .. FaultBound
        BY <3>1
    <3>3. owner' = owner /\ late' = late /\ reader' = reader
        BY <2>19 DEF StopReports, ownerVars, procVars
    <3> QED BY <3>2, <3>3, Zenon
  <2>20. CASE ForeignStop
        BY <2>20 DEF ForeignStop, ownerVars, procVars
  <2>21. CASE RecLooks
        BY <2>21 DEF RecLooks, ownerVars, procVars
  <2>22. CASE RecWrites
        BY <2>22 DEF RecWrites, ownerVars, procVars
  <2>23. CASE ReadAtOwner
        BY <2>23 DEF ReadAtOwner, ownerVars, procVars
  <2>24. CASE ReadRow
        BY <2>24 DEF ReadRow, ownerVars, procVars
  <2>25. CASE ReadOutputs
        BY <2>25 DEF ReadOutputs, ownerVars, procVars
  <2>30. CASE ReadStatus
        BY <2>30 DEF ReadStatus, ownerVars, procVars
  <2>31. CASE Reconnect
        BY <2>31 DEF Reconnect, ownerVars, procVars
  <2>26. CASE LeaseExpires
        BY <2>26 DEF LeaseExpires, ownerVars, procVars
  <2>27. CASE TimeoutPasses
        BY <2>27 DEF TimeoutPasses, ownerVars, procVars
  <2>28. CASE OwnerDies
        BY <2>28 DEF OwnerDies, ownerVars, procVars
  <2>29. CASE UNCHANGED nativeVars
        BY <2>29 DEF nativeVars
  <2> QED BY <2>1, <2>2, <2>3, <2>4, <2>5, <2>6, <2>7, <2>8, <2>9, <2>10, <2>11, <2>12, <2>13, <2>14, <2>15, <2>16, <2>17, <2>18, <2>19, <2>20, <2>21, <2>22, <2>23, <2>24, <2>25, <2>26, <2>27, <2>28, <2>29, <2>30, <2>31 DEF Next
<1> QED BY <1>1, <1>2, PTL DEF Spec

(***************************************************************************)
(* Every variable keeps its type, for any retention, any amount of output  *)
(* and any number of faults.                                               *)
(***************************************************************************)
THEOREM NativeTypes == Spec => []NativeTypeOK
<1>1. RowOK /\ CountInv /\ OwnerTypes => NativeTypeOK
  <2> SUFFICES ASSUME RowOK, CountInv, OwnerTypes PROVE NativeTypeOK
      OBVIOUS
  <2>1. made \in 0 .. ChunkBound /\ read \in 0 .. ChunkBound
      BY DEF CountInv
  <2>2. \A m \in 0 .. read : Kept(m) \subseteq 1 .. ChunkBound
      BY <2>1 DEF Kept
  <2>3. stored \subseteq 1 .. ChunkBound /\ unstored \subseteq 1 .. ChunkBound
    <3>1. PICK m \in 0 .. read : stored = Kept(m) \ unstored
        BY DEF CountInv, Taken
    <3> QED BY <2>1, <2>2, <3>1 DEF CountInv
  <2>4. client.cursor \in 0 .. ChunkBound /\ client.got \subseteq 1 .. ChunkBound
      BY <2>1 DEF CountInv, ClientType
  <2>5. client \in [at : ClientPlaces, cursor : 0 .. ChunkBound,
                    got : SUBSET (1 .. ChunkBound), told : {"all", "truncated"},
                    read : RowStatuses, status : RowStatuses]
      BY <2>4 DEF CountInv, ClientType
  <2> QED BY <2>1, <2>3, <2>5 DEF NativeTypeOK, ClientPlaces, RowOK, OwnerTypes
<1> QED BY <1>1, RowTypes, CountInvariant, OwnerTyped, PTL
=============================================================================
