------------------------- MODULE TurnManagerProofs -------------------------
(***************************************************************************)
(* Theorems about TurnManager, for every set of sessions, users and runs   *)
(* and every cap.                                                          *)
(*                                                                         *)
(* SlotAccounting is not inductive alone: that end(r) removes one session  *)
(* of owner[r], and no other user's, needs a run between begin and end to  *)
(* be the registered run of its own session.  IInv adds that, in both      *)
(* directions.                                                             *)
(***************************************************************************)
EXTENDS TurnManager, FiniteSetTheorems, TLAPS

(* The registry and the goroutines agree on who is active. *)
Registered ==
  /\ \A s \in Sessions : runs[s] # None => pc[runs[s]] \in Active /\ sess[runs[s]] = s
  /\ \A r \in Runs : pc[r] \in Active => runs[sess[r]] = r

IInv ==
  /\ TypeOK
  /\ Registered
  /\ CancelTargetsRun
  /\ SlotAccounting
  /\ CapRespected

LEMMA SessionsOfFinite ==
  \A u : IsFiniteSet(SessionsOf(u)) /\ Cardinality(SessionsOf(u)) \in Nat
<1>1. \A u : SessionsOf(u) \subseteq Sessions
  BY DEF SessionsOf
<1>2. QED
  BY <1>1, TurnManagerAssumption, FS_Subset, FS_CardinalityType DEF TurnManagerAssumption

LEMMA InitIInv == Init => IInv
<1>1. SUFFICES ASSUME Init PROVE IInv
  OBVIOUS
<1>2. TypeOK /\ Registered /\ CancelTargetsRun
  BY <1>1, TurnManagerAssumption
     DEF Init, TypeOK, Registered, CancelTargetsRun, Active, Reachable, TurnManagerAssumption
<1>3. \A u \in Users : SessionsOf(u) = {}
  BY <1>1 DEF Init, SessionsOf
<1>4. \A u \in Users : Cardinality(SessionsOf(u)) = 0
  BY <1>3, FS_EmptySet
<1>5. SlotAccounting /\ CapRespected
  BY <1>1, <1>4, TurnManagerAssumption
     DEF Init, SlotAccounting, CapRespected, TurnManagerAssumption
<1>6. QED
  BY <1>2, <1>5 DEF IInv

(* A step that leaves the registry and the owners alone keeps the counts. *)
LEMMA SameRegistry ==
  ASSUME SlotAccounting, CapRespected, UNCHANGED <<runs, owner, userRuns>>
  PROVE  SlotAccounting' /\ CapRespected'
<1>1. \A u : SessionsOf(u)' = SessionsOf(u)
  BY DEF SessionsOf
<1>2. QED
  BY <1>1 DEF SlotAccounting, CapRespected

(* begin: the new run takes a free session, so its user's sessions grow by
   exactly that one. *)
LEMMA BeginIInv ==
  ASSUME IInv, NEW r \in Runs, NEW s \in Sessions, NEW u \in Users, Begin(r, s, u)
  PROVE  IInv'
<1> USE DEF Active, Reachable
<1>1. TypeOK'
  BY DEF IInv, TypeOK, Begin
<1>2. \A t \in Sessions : runs[t] # r
  BY TurnManagerAssumption DEF IInv, TypeOK, Registered, Begin, TurnManagerAssumption
<1>3. Registered'
  BY <1>2, TurnManagerAssumption
     DEF IInv, TypeOK, Registered, Begin, TurnManagerAssumption
<1>4. CancelTargetsRun'
  BY <1>2, TurnManagerAssumption
     DEF IInv, TypeOK, CancelTargetsRun, Begin, TurnManagerAssumption
<1>5. SessionsOf(u)' = SessionsOf(u) \cup {s} /\ s \notin SessionsOf(u)
  BY <1>2, TurnManagerAssumption
     DEF IInv, TypeOK, SessionsOf, Begin, TurnManagerAssumption
<1>6. \A v \in Users \ {u} : SessionsOf(v)' = SessionsOf(v)
  BY <1>2, TurnManagerAssumption
     DEF IInv, TypeOK, SessionsOf, Begin, TurnManagerAssumption
<1>7. Cardinality(SessionsOf(u)') = Cardinality(SessionsOf(u)) + 1
  BY <1>5, SessionsOfFinite, FS_AddElement
<1>8. SlotAccounting'
  BY <1>6, <1>7 DEF IInv, TypeOK, SlotAccounting, Begin
<1>9. CapRespected'
  BY <1>6, <1>7, SessionsOfFinite, TurnManagerAssumption
     DEF IInv, SlotAccounting, CapRespected, Begin, BelowCap, TurnManagerAssumption
<1>10. QED
  BY <1>1, <1>3, <1>4, <1>8, <1>9 DEF IInv

(* end: the run is the registered run of its session, so its owner loses
   exactly that session, and the stored count was at least one. *)
LEMMA EndIInv ==
  ASSUME IInv, NEW r \in Runs, End(r)
  PROVE  IInv'
<1> USE DEF Active, Reachable, Returns
<1>1. PICK s \in Sessions, u \in Users : s = sess[r] /\ u = owner[r] /\ runs[s] = r
  BY DEF IInv, TypeOK, Registered, End
<1>2. TypeOK'
  BY <1>1 DEF IInv, TypeOK, End
<1>3. Registered'
  BY <1>1, TurnManagerAssumption
     DEF IInv, TypeOK, Registered, End, TurnManagerAssumption
<1>4. CancelTargetsRun'
  BY <1>1, TurnManagerAssumption
     DEF IInv, TypeOK, Registered, CancelTargetsRun, End, TurnManagerAssumption
<1>5. runs'[s] = None
  BY <1>1 DEF IInv, TypeOK, End
<1>6. ASSUME NEW t \in Sessions, t # s
       PROVE  runs'[t] = runs[t] /\ (runs[t] # None => owner'[runs[t]] = owner[runs[t]])
  <2>1. runs'[t] = runs[t]
    BY <1>1, <1>6 DEF IInv, TypeOK, End
  <2>2. runs[t] # None => runs[t] \in Runs /\ runs[t] # r
    BY <1>1, <1>6 DEF IInv, TypeOK, Registered
  <2>3. QED
    BY <2>1, <2>2 DEF IInv, TypeOK, End
<1>7. SessionsOf(u)' = SessionsOf(u) \ {s} /\ s \in SessionsOf(u)
  BY <1>1, <1>5, <1>6, TurnManagerAssumption DEF SessionsOf, TurnManagerAssumption
<1>8. \A v \in Users \ {u} : SessionsOf(v)' = SessionsOf(v)
  BY <1>1, <1>5, <1>6, TurnManagerAssumption DEF SessionsOf, TurnManagerAssumption
<1>9. Cardinality(SessionsOf(u)') = Cardinality(SessionsOf(u)) - 1
  BY <1>7, SessionsOfFinite, FS_RemoveElement
<1>10. userRuns'[u] = userRuns[u] - 1
  <2>1. Cardinality(SessionsOf(u)) \in Nat /\ Cardinality(SessionsOf(u)) # 0
    BY <1>7, SessionsOfFinite, FS_EmptySet
  <2>2. userRuns[u] = Cardinality(SessionsOf(u))
    BY <1>1 DEF IInv, SlotAccounting
  <2>3. userRuns'[u] = IF userRuns[u] > 1 THEN userRuns[u] - 1 ELSE 0
    BY <1>1 DEF IInv, TypeOK, End
  <2>4. QED
    BY <2>1, <2>2, <2>3
<1>11. SlotAccounting'
  BY <1>1, <1>8, <1>9, <1>10 DEF IInv, TypeOK, SlotAccounting, End
<1>12. CapRespected'
  <2> SUFFICES ASSUME MaxRuns > 0, NEW v \in Users
               PROVE  Cardinality(SessionsOf(v)') <= MaxRuns
    BY DEF CapRespected
  <2>1. Cardinality(SessionsOf(v)) \in Nat /\ Cardinality(SessionsOf(v)) <= MaxRuns
    BY SessionsOfFinite DEF IInv, CapRespected
  <2>2. CASE v = u
    BY <1>9, <2>1, <2>2, TurnManagerAssumption DEF TurnManagerAssumption
  <2>3. CASE v # u
    BY <1>8, <2>1, <2>3
  <2>4. QED
    BY <2>2, <2>3
<1>13. QED
  BY <1>2, <1>3, <1>4, <1>11, <1>12 DEF IInv

(* Every step keeps IInv; only begin and end touch the counts. *)
LEMMA NextIInv == IInv /\ [Next]_vars => IInv'
<1> SUFFICES ASSUME IInv, [Next]_vars PROVE IInv'
  OBVIOUS
<1> USE DEF Active, Reachable
<1>1. ASSUME NEW r \in Runs, NEW s \in Sessions, NEW u \in Users, Begin(r, s, u)
      PROVE  IInv'
  BY <1>1, BeginIInv
<1>2. ASSUME NEW r \in Runs, NoStream(r) PROVE IInv'
  <2>1. TypeOK'
    BY <1>2 DEF IInv, TypeOK, NoStream
  <2>2. Registered' /\ CancelTargetsRun'
    BY <1>2 DEF IInv, TypeOK, Registered, CancelTargetsRun, NoStream
  <2>3. SlotAccounting' /\ CapRespected'
    BY <1>2, SameRegistry DEF IInv, NoStream
  <2>4. QED
    BY <2>1, <2>2, <2>3 DEF IInv
<1>3. ASSUME NEW r \in Runs, Register(r) PROVE IInv'
  <2>1. TypeOK'
    BY <1>3 DEF IInv, TypeOK, Register
  <2>2. Registered' /\ CancelTargetsRun'
    BY <1>3, TurnManagerAssumption
       DEF IInv, TypeOK, Registered, CancelTargetsRun, Register, TurnManagerAssumption
  <2>3. SlotAccounting' /\ CapRespected'
    BY <1>3, SameRegistry DEF IInv, Register
  <2>4. QED
    BY <2>1, <2>2, <2>3 DEF IInv
<1>4. ASSUME NEW r \in Runs, Finish(r) PROVE IInv'
  <2>1. TypeOK'
    BY <1>4 DEF IInv, TypeOK, Finish
  <2>2. Registered' /\ CancelTargetsRun'
    BY <1>4 DEF IInv, TypeOK, Registered, CancelTargetsRun, Finish
  <2>3. SlotAccounting' /\ CapRespected'
    BY <1>4, SameRegistry DEF IInv, Finish
  <2>4. QED
    BY <2>1, <2>2, <2>3 DEF IInv
<1>5. ASSUME NEW r \in Runs, End(r) PROVE IInv'
  BY <1>5, EndIInv
<1>6. ASSUME NEW r \in Runs, StopCall(r) PROVE IInv'
  <2>1. TypeOK' /\ Registered' /\ CancelTargetsRun'
    BY <1>6 DEF IInv, TypeOK, Registered, CancelTargetsRun, StopCall
  <2>2. SlotAccounting' /\ CapRespected'
    BY <1>6, SameRegistry DEF IInv, StopCall
  <2>3. QED
    BY <2>1, <2>2 DEF IInv
<1>7. ASSUME NEW s \in Sessions, StopFetch(s) PROVE IInv'
  <2>1. TypeOK' /\ Registered' /\ CancelTargetsRun'
    BY <1>7 DEF IInv, TypeOK, Registered, CancelTargetsRun, StopFetch
  <2>2. SlotAccounting' /\ CapRespected'
    BY <1>7, SameRegistry DEF IInv, StopFetch
  <2>3. QED
    BY <2>1, <2>2 DEF IInv
<1>8. CASE UNCHANGED vars
  <2>1. TypeOK' /\ Registered' /\ CancelTargetsRun'
    BY <1>8 DEF IInv, TypeOK, Registered, CancelTargetsRun, vars, turnVars
  <2>2. SlotAccounting' /\ CapRespected'
    BY <1>8, SameRegistry DEF IInv, vars, turnVars
  <2>3. QED
    BY <2>1, <2>2 DEF IInv
<1>9. ASSUME NEW r \in Runs, EarlyReturn(r) PROVE IInv'
  <2>1. TypeOK' /\ Registered' /\ CancelTargetsRun'
    BY <1>9 DEF IInv, TypeOK, Registered, CancelTargetsRun, EarlyReturn, turnVars
  <2>2. SlotAccounting' /\ CapRespected'
    BY <1>9, SameRegistry DEF IInv, EarlyReturn, turnVars
  <2>3. QED
    BY <2>1, <2>2 DEF IInv
<1>10. ASSUME NEW r \in Runs, SyncLocks(r) PROVE IInv'
  <2>1. TypeOK' /\ Registered' /\ CancelTargetsRun'
    BY <1>10 DEF IInv, TypeOK, Registered, CancelTargetsRun, SyncLocks, turnVars
  <2>2. SlotAccounting' /\ CapRespected'
    BY <1>10, SameRegistry DEF IInv, SyncLocks, turnVars
  <2>3. QED
    BY <2>1, <2>2 DEF IInv
<1>11. ASSUME NEW r \in Runs, SyncReturns(r) PROVE IInv'
  <2>1. TypeOK' /\ Registered' /\ CancelTargetsRun'
    BY <1>11 DEF IInv, TypeOK, Registered, CancelTargetsRun, SyncReturns, turnVars
  <2>2. SlotAccounting' /\ CapRespected'
    BY <1>11, SameRegistry DEF IInv, SyncReturns, turnVars
  <2>3. QED
    BY <2>1, <2>2 DEF IInv
<1>12. ASSUME NEW r \in Runs, Sticks(r) PROVE IInv'
  <2>1. TypeOK' /\ Registered' /\ CancelTargetsRun'
    BY <1>12 DEF IInv, TypeOK, Registered, CancelTargetsRun, Sticks, turnVars
  <2>2. SlotAccounting' /\ CapRespected'
    BY <1>12, SameRegistry DEF IInv, Sticks, turnVars
  <2>3. QED
    BY <2>1, <2>2 DEF IInv
<1>13. ASSUME NEW r \in Runs, Unsticks(r) PROVE IInv'
  <2>1. TypeOK' /\ Registered' /\ CancelTargetsRun'
    BY <1>13 DEF IInv, TypeOK, Registered, CancelTargetsRun, Unsticks, turnVars
  <2>2. SlotAccounting' /\ CapRespected'
    BY <1>13, SameRegistry DEF IInv, Unsticks, turnVars
  <2>3. QED
    BY <2>1, <2>2 DEF IInv
<1>14. QED
  BY <1>1, <1>2, <1>3, <1>4, <1>5, <1>6, <1>7, <1>8, <1>9, <1>10, <1>11, <1>12, <1>13
     DEF Next

LEMMA InductiveInvariant == Spec => []IInv
  BY InitIInv, NextIInv, PTL DEF Spec

(* Every variable keeps its type; in particular a user's count never goes
   below zero. *)
THEOREM TypeCorrect == Spec => []TypeOK
<1>1. IInv => TypeOK
  BY DEF IInv
<1>2. QED
  BY <1>1, InductiveInvariant, PTL

(* beginOrQueue and the deferred end account for every slot: a user's count is
   the number of sessions whose active run the user started. *)
THEOREM SlotsAccounted == Spec => []SlotAccounting
<1>1. IInv => SlotAccounting
  BY DEF IInv
<1>2. QED
  BY <1>1, InductiveInvariant, PTL

(* No user ever has more active runs than MaxConcurrentRunsPerUser. *)
THEOREM CapHolds == Spec => []CapRespected
<1>1. IInv => CapRespected
  BY DEF IInv
<1>2. QED
  BY <1>1, InductiveInvariant, PTL

(* turnManager is single-flight per session: two overlapping calls of
   streamChatTurn are for two sessions. *)
THEOREM RunsAreSingleFlight == Spec => []SingleFlight
<1>1. IInv => SingleFlight
  BY DEF IInv, Registered, SingleFlight
<1>2. QED
  BY <1>1, InductiveInvariant, PTL

(* The stop endpoint only ever cancels the session's own active run. *)
THEOREM StopIsPrecise == Spec => []CancelTargetsRun
<1>1. IInv => CancelTargetsRun
  BY DEF IInv
<1>2. QED
  BY <1>1, InductiveInvariant, PTL
=============================================================================
