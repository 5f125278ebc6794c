-------------------------- MODULE SupervisorProofs --------------------------
(***************************************************************************)
(* Theorems about Supervisor, for every set of callers, every budget and   *)
(* any number of crashes.                                                  *)
(*                                                                         *)
(* That there is one sidecar at most is not inductive: a spawn must come   *)
(* after the end of the process before it, and watch is what knows.  IInv  *)
(* adds what watch knows at each of its steps: which process is installed, *)
(* that none runs, that no connection is left, how many failures its count *)
(* stands for.                                                             *)
(***************************************************************************)
EXTENDS Supervisor, FiniteSetTheorems, TLAPS

(* The installed process is the only one that can be running. *)
AliveIsProc == \A p \in alive : p = proc

(* What watch knows of the process and of the connection. *)
WatchKnows ==
  /\ watch.pc \in {"wait", "forget", "shake", "install", "record", "clear"} => watch.p = proc
  /\ watch.pc \in {"forget", "loop", "backoff", "spawn", "clear"} => alive = {}
  /\ watch.pc \in {"loop", "backoff", "spawn", "shake", "install", "clear"} => conn = 0

(* The count of watch, and the one in the supervisor, stand for failures. *)
CountsFailures ==
  /\ watch.pc = "loop" => carried + failures > watch.n
  /\ watch.pc \in {"backoff"} \cup Spawning => carried + failures >= watch.n
  /\ watch.pc \in {"top", "wait", "forget"} => carried + failures >= consecutive

(* What a restart waits for is newer than what it kills. *)
NewerComes ==
  \A c \in Callers : calls[c].pc \in {"kill", "wait"} /\ ~midSpawn =>
    /\ conn # 0 => conn > calls[c].victim
    /\ watch.pc \in {"shake", "install"} => watch.p > calls[c].victim

IInv ==
  /\ TypeOK
  /\ AliveIsProc
  /\ ConnIsCurrent
  /\ WatchKnows
  /\ CountsFailures
  /\ NewerComes

LEMMA InitIInv == Init => IInv
<1> SUFFICES ASSUME Init PROVE IInv
  OBVIOUS
<1>1. TypeOK
  <2>1. watch \in [pc : {"top", "wait", "forget", "loop", "backoff", "over"} \cup Spawning,
                 p : 0 .. spawned, n : 0 .. MaxRestarts]
    BY SupervisorAssumption DEF Init, SupervisorAssumption
  <2>2. calls \in [Callers -> [pc : {"idle", "poisoned", "drop", "kill", "wait", "done"},
                             target : 0 .. spawned, victim : 0 .. spawned]]
    BY DEF Init
  <2>3. closer \in [pc : {"idle", "stop", "closed"}, p : 0 .. spawned]
    BY DEF Init
  <2>4. alive \subseteq 1 .. spawned /\ spawned \in Nat
    BY DEF Init
  <2>5. /\ proc \in 0 .. spawned /\ conn \in 0 .. spawned
        /\ consecutive \in 0 .. MaxRestarts /\ failures \in Nat /\ carried \in Nat
        /\ crashes \in 0 .. MaxCrashes
    BY SupervisorAssumption DEF Init, SupervisorAssumption
  <2>6. /\ stopping \in BOOLEAN /\ stopped \in BOOLEAN /\ ctxDone \in BOOLEAN
        /\ midSpawn \in BOOLEAN /\ restartMu \in Callers \cup {None}
    BY DEF Init
  <2>7. QED
    BY <2>1, <2>2, <2>3, <2>4, <2>5, <2>6 DEF TypeOK
<1>2. AliveIsProc /\ ConnIsCurrent /\ WatchKnows /\ CountsFailures /\ NewerComes
  BY DEF Init, AliveIsProc, ConnIsCurrent, WatchKnows, CountsFailures, NewerComes, Spawning
<1>3. QED
  BY <1>1, <1>2 DEF IInv

LEMMA StepIInv == IInv /\ [Next]_vars => IInv'
<1> SUFFICES ASSUME IInv, [Next]_vars PROVE IInv'
  OBVIOUS
<1> USE SupervisorAssumption
    DEF IInv, TypeOK, AliveIsProc, ConnIsCurrent, WatchKnows, CountsFailures, NewerComes,
        Spawning, state, ghosts, SupervisorAssumption
<1>1. CASE Crash
  BY <1>1 DEF Crash
<1>2. CASE WatchTop
  BY <1>2 DEF WatchTop
<1>3. CASE WatchExit
  BY <1>3 DEF WatchExit
<1>4. CASE WatchForget
  <2>1. TypeOK'
    <3>1. /\ consecutive' \in 0 .. MaxRestarts /\ failures' \in Nat /\ carried' \in Nat
          /\ watch' = [watch EXCEPT !.pc = "loop", !.n = consecutive']
      BY <1>4 DEF WatchForget
    <3>2. watch' \in [pc : {"loop"}, p : 0 .. spawned, n : 0 .. MaxRestarts]
      BY <3>1
    <3>3. QED
      BY <1>4, <3>1, <3>2 DEF WatchForget
  <2>2. AliveIsProc' /\ ConnIsCurrent' /\ WatchKnows'
    BY <1>4 DEF WatchForget
  <2>3. CountsFailures'
    BY <1>4 DEF WatchForget
  <2>4. NewerComes'
    BY <1>4 DEF WatchForget
  <2>5. QED
    BY <2>1, <2>2, <2>3, <2>4
<1>5. CASE Attempt
  <2>1. TypeOK'
    <3>1. watch.n + 1 \in 0 .. MaxRestarts
      BY <1>5 DEF Attempt
    <3>2. watch' \in [pc : {"backoff"}, p : 0 .. spawned, n : 0 .. MaxRestarts]
      BY <1>5, <3>1 DEF Attempt
    <3>3. QED
      BY <1>5, <3>2 DEF Attempt
  <2>2. AliveIsProc' /\ ConnIsCurrent' /\ WatchKnows'
    BY <1>5 DEF Attempt
  <2>3. CountsFailures'
    BY <1>5 DEF Attempt
  <2>4. NewerComes'
    BY <1>5 DEF Attempt
  <2>5. QED
    BY <2>1, <2>2, <2>3, <2>4
<1>6. CASE GiveUp
  BY <1>6 DEF GiveUp
<1>7. CASE Backoff
  BY <1>7 DEF Backoff
<1>8. CASE SpawnStart
  <2>1. TypeOK'
    <3>1. watch' \in [pc : {"shake"}, p : 0 .. spawned', n : 0 .. MaxRestarts]
      <4>1. spawned + 1 \in 0 .. spawned' /\ watch.n \in 0 .. MaxRestarts
        BY <1>8 DEF SpawnStart
      <4>2. watch' = [pc |-> "shake", p |-> spawned + 1, n |-> watch.n]
        BY <1>8 DEF SpawnStart
      <4>3. QED
        BY <4>1, <4>2
    <3>2. \A n \in 0 .. spawned : n \in 0 .. spawned'
      BY <1>8 DEF SpawnStart
    <3>3. calls' \in [Callers -> [pc : {"idle", "poisoned", "drop", "kill", "wait", "done"},
                                  target : 0 .. spawned', victim : 0 .. spawned']]
      <4>1. 0 .. spawned \subseteq 0 .. spawned'
        BY <3>2
      <4>2. calls' = calls
        BY <1>8 DEF SpawnStart
      <4>3. QED
        BY <4>1, <4>2
    <3>4. closer' \in [pc : {"idle", "stop", "closed"}, p : 0 .. spawned']
      BY <1>8, <3>2 DEF SpawnStart
    <3>5. QED
      BY <1>8, <3>1, <3>2, <3>3, <3>4 DEF SpawnStart
  <2>2. AliveIsProc' /\ ConnIsCurrent' /\ WatchKnows'
    BY <1>8 DEF SpawnStart
  <2>3. CountsFailures'
    BY <1>8 DEF SpawnStart
  <2>4. NewerComes'
    BY <1>8 DEF SpawnStart
  <2>5. QED
    BY <2>1, <2>2, <2>3, <2>4
<1>9. CASE SpawnRefused
  BY <1>9 DEF SpawnRefused
<1>10. CASE Handshake
  BY <1>10 DEF Handshake
<1>11. CASE HandshakeFails
  BY <1>11 DEF HandshakeFails
<1>12. CASE SpawnCleared
  BY <1>12 DEF SpawnCleared
<1>13. CASE Install
  BY <1>13 DEF Install
<1>14. CASE RecordRestart
  BY <1>14 DEF RecordRestart
<1>15. CASE Signal
  BY <1>15 DEF Signal
<1>16. CASE CloseBegin
  BY <1>16 DEF CloseBegin
<1>17. CASE CloseEnd
  BY <1>17 DEF CloseEnd
<1>18. ASSUME NEW c \in Callers, Poisoned(c) PROVE IInv'
  <2>1. TypeOK'
    BY <1>18 DEF Poisoned
  <2>2. AliveIsProc' /\ ConnIsCurrent' /\ WatchKnows'
    BY <1>18 DEF Poisoned
  <2>3. CountsFailures'
    BY <1>18 DEF Poisoned
  <2>4. NewerComes'
    BY <1>18 DEF Poisoned
  <2>5. QED
    BY <2>1, <2>2, <2>3, <2>4
<1>19. ASSUME NEW c \in Callers, RestartLock(c) PROVE IInv'
  BY <1>19 DEF RestartLock, At
<1>20. ASSUME NEW c \in Callers, RestartDrop(c) PROVE IInv'
  <2>1. TypeOK'
    <3>1. consecutive' \in 0 .. MaxRestarts /\ conn' \in 0 .. spawned
          /\ failures' \in Nat /\ carried' \in Nat
      BY <1>20 DEF RestartDrop, FreshBudget
    <3>2. /\ calls' \in [Callers -> [pc : {"idle", "poisoned", "drop", "kill", "wait", "done"},
                                     target : 0 .. spawned, victim : 0 .. spawned]]
          /\ restartMu' \in Callers \cup {None}
      BY <1>20 DEF RestartDrop, FreshBudget, Returned
    <3>3. midSpawn' \in BOOLEAN
      BY <1>20, Zenon DEF RestartDrop
    <3>4. QED
      BY <1>20, <3>1, <3>2, <3>3 DEF RestartDrop
  <2>2. AliveIsProc' /\ ConnIsCurrent' /\ WatchKnows'
    BY <1>20 DEF RestartDrop, FreshBudget, Returned
  <2>3. CountsFailures'
    BY <1>20 DEF RestartDrop, FreshBudget, Returned
  <2>4. NewerComes'
    <3>1. CASE stopping
      <4>1. midSpawn' = midSpawn /\ conn' = conn
        BY <1>20, <3>1, Zenon DEF RestartDrop
      <4>2. QED
        BY <1>20, <3>1, <4>1 DEF RestartDrop, FreshBudget, Returned
    <3>2. CASE ~stopping
      <4>1. conn' = 0
        BY <1>20, <3>2 DEF RestartDrop
      <4>2. ~midSpawn' => watch.pc \notin Spawning
        BY <1>20, <3>2, Zenon DEF RestartDrop
      <4>3. watch' = watch
        BY <1>20 DEF RestartDrop
      <4>4. QED
        BY <4>1, <4>2, <4>3
    <3>3. QED
      BY <3>1, <3>2
  <2>5. QED
    BY <2>1, <2>2, <2>3, <2>4
<1>21. ASSUME NEW c \in Callers, RestartKill(c) PROVE IInv'
  BY <1>21 DEF RestartKill, At
<1>22. ASSUME NEW c \in Callers, RestartOK(c) PROVE IInv'
  BY <1>22 DEF RestartOK, Returned
<1>23. ASSUME NEW c \in Callers, RestartFails(c) PROVE IInv'
  BY <1>23 DEF RestartFails, Returned
<1>24. ASSUME NEW c \in Callers, RestartCancelled(c) PROVE IInv'
  BY <1>24 DEF RestartCancelled, Returned
<1>25. CASE UNCHANGED vars
  BY <1>25 DEF vars
<1>26. QED
  BY <1>1, <1>2, <1>3, <1>4, <1>5, <1>6, <1>7, <1>8, <1>9, <1>10, <1>11, <1>12, <1>13, <1>14, <1>15, <1>16, <1>17, <1>18, <1>19, <1>20, <1>21, <1>22, <1>23, <1>24, <1>25
     DEF Next, WatchStep, RestartStep
LEMMA Invariance == Spec => []IInv
  BY InitIInv, StepIInv, PTL DEF Spec

(* Type correctness: no count of watch exceeds the budget, no variable names a
   process that was never started. *)
THEOREM TypeCorrect == Spec => []TypeOK
<1>1. IInv => TypeOK
  BY DEF IInv
<1>2. QED
  BY Invariance, <1>1, PTL

(* supervisor.go, ErrAlreadyRunning: one process owns the durable store, through
   every crash, failed start, restart and shutdown. *)
THEOREM OneSidecarAtMost == Spec => []OneSidecar
<1>1. ASSUME IInv PROVE OneSidecar
  <2>1. alive \subseteq {proc}
    BY <1>1 DEF IInv, AliveIsProc
  <2>2. IsFiniteSet({proc}) /\ Cardinality({proc}) = 1
    BY FS_Singleton
  <2>3. Cardinality(alive) <= Cardinality({proc})
    BY <2>1, <2>2, FS_Subset
  <2>4. QED
    BY <2>2, <2>3 DEF OneSidecar
<1>2. QED
  BY Invariance, <1>1, PTL

(* watch and Restart: the connection calls go through is the installed
   process's own, never that of one that was replaced. *)
THEOREM ConnIsProcs == Spec => []ConnIsCurrent
<1>1. IInv => ConnIsCurrent
  BY DEF IInv
<1>2. QED
  BY Invariance, <1>1, PTL

(* Restart and waitConn: a restart hands back a later process than the one it
   killed, unless it was asked for in the middle of a spawn. *)
THEOREM RestartsAreFresh == Spec => []RestartIsFresh
<1>1. IInv => RestartIsFresh
  BY DEF IInv, NewerComes, RestartIsFresh
<1>2. QED
  BY Invariance, <1>1, PTL

(* watch: it gives up only after the exit of a process and a failure of every
   attempt of the budget, in a row, since the last restart; what failed before a
   restart counts only when that restart came while watch respawned. *)
THEOREM BudgetIsSpent == Spec => GivesUpAfterBudget
<1>1. ASSUME IInv, [Next]_vars, stopped' # stopped
      PROVE \/ failures > MaxRestarts
            \/ carried > 0 /\ carried + failures > MaxRestarts
  <2>1. GiveUp
    BY <1>1 DEF Next, WatchStep, RestartStep, Crash, WatchTop, WatchExit, WatchForget,
       Attempt, Backoff, SpawnStart, SpawnRefused, Handshake, HandshakeFails, SpawnCleared,
       Install, RecordRestart, Poisoned, RestartLock, RestartDrop, RestartKill, RestartOK,
       RestartFails, RestartCancelled, Signal, CloseBegin, CloseEnd, state, vars
  <2>2. watch.n >= MaxRestarts /\ carried + failures > watch.n
    BY <1>1, <2>1 DEF GiveUp, IInv, CountsFailures
  <2>3. watch.n \in Nat /\ failures \in Nat /\ carried \in Nat /\ MaxRestarts \in Nat
    BY <1>1, SupervisorAssumption DEF IInv, TypeOK, SupervisorAssumption
  <2>4. QED
    BY <2>2, <2>3
<1>2. QED
  BY Invariance, <1>1, PTL DEF Spec, GivesUpAfterBudget
=============================================================================
