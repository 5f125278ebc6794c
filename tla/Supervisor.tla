----------------------------- MODULE Supervisor -----------------------------
(***************************************************************************)
(* Supervisor of internal/harness/supervisor.go: the watch goroutine that  *)
(* respawns the sidecar process, turns whose calls meet a poisoned session *)
(* and restart it, crashes, and the Close of a server that shuts down.     *)
(*                                                                         *)
(* Processes are 1, 2, ... in the order they are started, 0 is nil.  Each  *)
(* has at most one connection, so a connection is its process.  A section  *)
(* under Supervisor.mu is one step, a signal to a process another.         *)
(***************************************************************************)
EXTENDS Naturals, FiniteSets

CONSTANTS
  Callers,      (* calls of Call that may be answered "Session is poisoned" *)
  MaxRestarts,  (* MaxRestarts                                             *)
  MaxCrashes,   (* bound: processes that die by themselves                 *)
  None

ASSUME SupervisorAssumption ==
  /\ None \notin Callers
  /\ MaxRestarts \in Nat /\ MaxCrashes \in Nat

VARIABLES
  spawned,      (* processes started so far                                *)
  alive,        (* the processes that run                                  *)
  proc,         (* proc                                                    *)
  conn,         (* conn                                                    *)
  consecutive,  (* consecutive                                             *)
  stopping,     (* stopping                                                *)
  stopped,      (* whether the channel stopped is closed                   *)
  watch,        (* watch: where it is, its process, its count              *)
  calls,        (* Call and Restart: where each is, the process that
                   answered, the one it kills                              *)
  restartMu,    (* the caller that holds restartMu                         *)
  closer,       (* Close: where it is, its process                         *)
  ctxDone,      (* the program was told to stop                            *)
  failures,     (* exits and failed starts in a row, since the last healthy
                   process or the last restart                             *)
  carried,      (* such failures of before a restart that came while watch
                   respawned, which its own count still holds              *)
  midSpawn,     (* a restart was asked for while a spawn was under way     *)
  crashes       (* counter behind the bound                                *)

state == <<proc, conn, consecutive, stopping, stopped>>
ghosts == <<failures, carried, midSpawn>>
vars == <<spawned, alive, state, watch, calls, restartMu, closer, ctxDone,
          ghosts, crashes>>

Spawning == {"spawn", "shake", "install", "record", "clear"}

TypeOK ==
  /\ spawned \in Nat /\ alive \subseteq 1 .. spawned
  /\ proc \in 0 .. spawned /\ conn \in 0 .. spawned
  /\ consecutive \in 0 .. MaxRestarts
  /\ stopping \in BOOLEAN /\ stopped \in BOOLEAN
  /\ watch \in [pc : {"top", "wait", "forget", "loop", "backoff", "over"} \cup Spawning,
                p : 0 .. spawned, n : 0 .. MaxRestarts]
  /\ calls \in [Callers -> [pc : {"idle", "poisoned", "drop", "kill", "wait", "done"},
                            target : 0 .. spawned, victim : 0 .. spawned]]
  /\ restartMu \in Callers \cup {None}
  /\ closer \in [pc : {"idle", "stop", "closed"}, p : 0 .. spawned]
  /\ ctxDone \in BOOLEAN /\ midSpawn \in BOOLEAN
  /\ failures \in Nat /\ carried \in Nat /\ crashes \in 0 .. MaxCrashes

(* What a successful Start leaves; after a failed one the program ends. *)
Init ==
  /\ spawned = 1 /\ alive = {1} /\ proc = 1 /\ conn = 1
  /\ consecutive = 0 /\ stopping = FALSE /\ stopped = FALSE
  /\ watch = [pc |-> "top", p |-> 0, n |-> 0]
  /\ calls = [c \in Callers |-> [pc |-> "idle", target |-> 0, victim |-> 0]]
  /\ restartMu = None
  /\ closer = [pc |-> "idle", p |-> 0]
  /\ ctxDone = FALSE /\ failures = 0 /\ carried = 0 /\ midSpawn = FALSE /\ crashes = 0

(* A process dies by itself; the sidecar's end of the socket goes with it. *)
Crash ==
  /\ crashes < MaxCrashes /\ alive # {}
  /\ \E p \in alive : alive' = alive \ {p}
  /\ crashes' = crashes + 1
  /\ UNCHANGED <<spawned, state, watch, calls, restartMu, closer, ctxDone, ghosts>>
-----------------------------------------------------------------------------
(* The head of watch: it waits for the process it finds. *)
WatchTop ==
  /\ watch.pc = "top"
  /\ watch' = [watch EXCEPT !.p = proc, !.pc = IF proc = 0 THEN "over" ELSE "wait"]
  /\ UNCHANGED <<spawned, alive, state, calls, restartMu, closer, ctxDone, ghosts, crashes>>

(* The process exited: the end of watch when the supervisor is stopping ... *)
WatchExit ==
  /\ watch.pc = "wait" /\ watch.p \notin alive
  /\ watch' = [watch EXCEPT !.pc = IF stopping THEN "over" ELSE "forget"]
  /\ UNCHANGED <<spawned, alive, state, calls, restartMu, closer, ctxDone, ghosts, crashes>>

(* A bug to catch: the connection of the dead process stays. *)
WatchForgetKeepsConn ==
  /\ watch.pc = "forget"
  /\ \E healthy \in BOOLEAN :
       LET spent == IF healthy THEN 0 ELSE consecutive IN
       /\ consecutive' = spent
       /\ watch' = [watch EXCEPT !.pc = "loop", !.n = spent]
       /\ failures' = IF healthy THEN 1 ELSE failures + 1
       /\ carried' = IF healthy THEN 0 ELSE carried
  /\ UNCHANGED <<spawned, alive, proc, conn, stopping, stopped, calls, restartMu, closer,
                 ctxDone, midSpawn, crashes>>

(* ... else its connection is dropped; one that ran for RestartHealthyAfter
   leaves a fresh budget. *)
WatchForget ==
  /\ watch.pc = "forget"
  /\ conn' = 0
  /\ \E healthy \in BOOLEAN :
       LET spent == IF healthy THEN 0 ELSE consecutive IN
       /\ consecutive' = spent
       /\ watch' = [watch EXCEPT !.pc = "loop", !.n = spent]
       /\ failures' = IF healthy THEN 1 ELSE failures + 1
       /\ carried' = IF healthy THEN 0 ELSE carried
  /\ UNCHANGED <<spawned, alive, proc, stopping, stopped, calls, restartMu, closer,
                 ctxDone, midSpawn, crashes>>

(* The next attempt, when the budget has one. *)
Attempt ==
  /\ watch.pc = "loop" /\ watch.n < MaxRestarts
  /\ watch' = [watch EXCEPT !.pc = "backoff", !.n = @ + 1]
  /\ UNCHANGED <<spawned, alive, state, calls, restartMu, closer, ctxDone, ghosts, crashes>>

(* A bug to catch: those who wait for a connection are not told. *)
GiveUpSilently ==
  /\ watch.pc = "loop" /\ watch.n >= MaxRestarts
  /\ consecutive' = watch.n
  /\ watch' = [watch EXCEPT !.pc = "over"]
  /\ UNCHANGED <<spawned, alive, proc, conn, stopping, stopped, calls, restartMu, closer,
                 ctxDone, ghosts, crashes>>

(* A bug to catch: the last attempt of the budget is not made. *)
GiveUpEarly ==
  /\ watch.pc = "loop" /\ watch.n + 1 >= MaxRestarts
  /\ consecutive' = watch.n
  /\ stopped' = TRUE
  /\ watch' = [watch EXCEPT !.pc = "over"]
  /\ UNCHANGED <<spawned, alive, proc, conn, stopping, calls, restartMu, closer,
                 ctxDone, ghosts, crashes>>

(* The budget is spent. *)
GiveUp ==
  /\ watch.pc = "loop" /\ watch.n >= MaxRestarts
  /\ consecutive' = watch.n
  /\ stopped' = TRUE
  /\ watch' = [watch EXCEPT !.pc = "over"]
  /\ UNCHANGED <<spawned, alive, proc, conn, stopping, calls, restartMu, closer,
                 ctxDone, ghosts, crashes>>

(* The backoff is over, or the program is told to stop during it; `stopped`
   stays open then. *)
Backoff ==
  /\ watch.pc = "backoff"
  /\ \/ watch' = [watch EXCEPT !.pc = IF stopping THEN "over" ELSE "spawn"]
     \/ ctxDone /\ watch' = [watch EXCEPT !.pc = "over"]
  /\ UNCHANGED <<spawned, alive, state, calls, restartMu, closer, ctxDone, ghosts, crashes>>

(* spawn: the process is started and installed ... *)
SpawnStart ==
  /\ watch.pc = "spawn"
  /\ spawned' = spawned + 1
  /\ alive' = alive \cup {spawned + 1}
  /\ proc' = spawned + 1
  /\ watch' = [watch EXCEPT !.pc = "shake", !.p = spawned + 1]
  /\ UNCHANGED <<conn, consecutive, stopping, stopped, calls, restartMu, closer,
                 ctxDone, ghosts, crashes>>

(* ... or cannot be started, which counts as a failed attempt ... *)
SpawnRefused ==
  /\ watch.pc = "spawn"
  /\ consecutive' = watch.n
  /\ failures' = failures + 1
  /\ watch' = [watch EXCEPT !.pc = "loop"]
  /\ UNCHANGED <<spawned, alive, proc, conn, stopping, stopped, calls, restartMu, closer,
                 ctxDone, carried, midSpawn, crashes>>

(* ... the socket appears, the dial and the handshake succeed, all under the
   program's context ... *)
Handshake ==
  /\ watch.pc = "shake"
  /\ watch.p \in alive /\ ~ctxDone
  /\ watch' = [watch EXCEPT !.pc = "install"]
  /\ UNCHANGED <<spawned, alive, state, calls, restartMu, closer, ctxDone, ghosts, crashes>>

(* A bug to catch: a sidecar that does not come up is left to itself. *)
HandshakeFailsLeaves ==
  /\ watch.pc = "shake"
  /\ watch' = [watch EXCEPT !.pc = "clear"]
  /\ UNCHANGED <<spawned, alive, state, calls, restartMu, closer, ctxDone, ghosts, crashes>>

(* ... or one of them fails or times out: terminate kills the process ... *)
HandshakeFails ==
  /\ watch.pc = "shake"
  /\ alive' = alive \ {watch.p}
  /\ watch' = [watch EXCEPT !.pc = "clear"]
  /\ UNCHANGED <<spawned, state, calls, restartMu, closer, ctxDone, ghosts, crashes>>

(* ... and clears it, and the attempt has failed. *)
SpawnCleared ==
  /\ watch.pc = "clear"
  /\ IF proc = watch.p THEN proc' = 0 /\ conn' = 0 ELSE UNCHANGED <<proc, conn>>
  /\ consecutive' = watch.n
  /\ failures' = failures + 1
  /\ watch' = [watch EXCEPT !.pc = "loop"]
  /\ UNCHANGED <<spawned, alive, stopping, stopped, calls, restartMu, closer, ctxDone,
                 carried, midSpawn, crashes>>

(* The end of spawn installs the connection, whatever happened meanwhile ... *)
Install ==
  /\ watch.pc = "install"
  /\ conn' = watch.p
  /\ watch' = [watch EXCEPT !.pc = "record"]
  /\ UNCHANGED <<spawned, alive, proc, consecutive, stopping, stopped, calls, restartMu,
                 closer, ctxDone, ghosts, crashes>>

(* ... and watch writes its own count (and counts the restart for the status). *)
RecordRestart ==
  /\ watch.pc = "record"
  /\ consecutive' = watch.n
  /\ watch' = [watch EXCEPT !.pc = "top"]
  /\ UNCHANGED <<spawned, alive, proc, conn, stopping, stopped, calls, restartMu, closer,
                 ctxDone, ghosts, crashes>>

WatchStep ==
  \/ WatchTop \/ WatchExit \/ WatchForget \/ Attempt \/ GiveUp \/ Backoff
  \/ SpawnStart \/ SpawnRefused \/ Handshake \/ HandshakeFails \/ SpawnCleared
  \/ Install \/ RecordRestart
-----------------------------------------------------------------------------
At(c, pc) == [calls EXCEPT ![c].pc = pc]
Returned(c) == [calls EXCEPT ![c] = [pc |-> "done", target |-> 0, victim |-> 0]]

(* The sidecar answers a call with the poisoned session's error. *)
Poisoned(c) ==
  /\ calls[c].pc = "idle" /\ conn \in alive
  /\ calls' = [calls EXCEPT ![c].pc = "poisoned", ![c].target = conn]
  /\ UNCHANGED <<spawned, alive, state, watch, restartMu, closer, ctxDone, ghosts, crashes>>

(* Restart, one at a time ... *)
RestartLock(c) ==
  /\ calls[c].pc = "poisoned" /\ restartMu = None
  /\ restartMu' = c
  /\ calls' = At(c, "drop")
  /\ UNCHANGED <<spawned, alive, state, watch, closer, ctxDone, ghosts, crashes>>

(* The count starts anew, but not the one of a watch that respawns. *)
FreshBudget ==
  /\ failures' = 0
  /\ carried' = IF watch.pc \in {"top", "wait", "forget"} THEN 0 ELSE carried + failures

(* A bug to catch: the connection stays until the read loop notices. *)
RestartDropKeepsConn(c) ==
  /\ calls[c].pc = "drop"
  /\ IF stopping
       THEN UNCHANGED <<consecutive, ghosts>>
       ELSE /\ consecutive' = 0
            /\ FreshBudget
            /\ midSpawn' = (midSpawn \/ watch.pc \in Spawning)
  /\ IF stopping \/ proc = 0
       THEN calls' = Returned(c) /\ restartMu' = None
       ELSE /\ calls' = [calls EXCEPT ![c].pc = "kill", ![c].victim = proc]
            /\ restartMu' = restartMu
  /\ UNCHANGED <<spawned, alive, proc, conn, stopping, stopped, watch, closer, ctxDone, crashes>>

(* ... drops the connection and gives a full budget; there is nothing to do
   while the supervisor stops or has no process ... *)
RestartDrop(c) ==
  /\ calls[c].pc = "drop"
  /\ IF stopping
       THEN UNCHANGED <<conn, consecutive, ghosts>>
       ELSE /\ conn' = 0 /\ consecutive' = 0
            /\ FreshBudget
            /\ midSpawn' = (midSpawn \/ watch.pc \in Spawning)
  /\ IF stopping \/ proc = 0
       THEN calls' = Returned(c) /\ restartMu' = None
       ELSE /\ calls' = [calls EXCEPT ![c].pc = "kill", ![c].victim = proc]
            /\ restartMu' = restartMu
  /\ UNCHANGED <<spawned, alive, proc, stopping, stopped, watch, closer, ctxDone, crashes>>

(* ... kills the process ... *)
RestartKill(c) ==
  /\ calls[c].pc = "kill"
  /\ alive' = alive \ {calls[c].victim}
  /\ calls' = At(c, "wait")
  /\ UNCHANGED <<spawned, state, watch, restartMu, closer, ctxDone, ghosts, crashes>>

(* A bug to catch: restartMu is not unlocked. *)
RestartOKKeepsLock(c) ==
  /\ calls[c].pc = "wait" /\ conn # 0
  /\ calls' = Returned(c)
  /\ UNCHANGED <<spawned, alive, state, watch, restartMu, closer, ctxDone, ghosts, crashes>>

(* ... and waits for a connection, which it does not look at ... *)
RestartOK(c) ==
  /\ calls[c].pc = "wait" /\ conn # 0
  /\ calls' = Returned(c)
  /\ restartMu' = None
  /\ UNCHANGED <<spawned, alive, state, watch, closer, ctxDone, ghosts, crashes>>

(* ... or for the supervisor to stop or give up. *)
RestartFails(c) ==
  /\ calls[c].pc = "wait" /\ conn = 0
  /\ stopping \/ stopped
  /\ calls' = Returned(c)
  /\ restartMu' = None
  /\ UNCHANGED <<spawned, alive, state, watch, closer, ctxDone, ghosts, crashes>>

(* The turn behind the call is cancelled while it waits. *)
RestartCancelled(c) ==
  /\ calls[c].pc = "wait" /\ conn = 0
  /\ calls' = Returned(c)
  /\ restartMu' = None
  /\ UNCHANGED <<spawned, alive, state, watch, closer, ctxDone, ghosts, crashes>>

RestartStep(c) ==
  RestartLock(c) \/ RestartDrop(c) \/ RestartKill(c) \/ RestartOK(c) \/ RestartFails(c)
-----------------------------------------------------------------------------
Signal ==
  /\ ~ctxDone
  /\ ctxDone' = TRUE
  /\ UNCHANGED <<spawned, alive, state, watch, calls, restartMu, closer, ghosts, crashes>>

(* Close, which main calls some time after the signal ... *)
CloseBegin ==
  /\ closer.pc = "idle" /\ ctxDone
  /\ stopping' = TRUE
  /\ conn' = 0
  /\ closer' = [pc |-> "stop", p |-> proc]
  /\ UNCHANGED <<spawned, alive, proc, consecutive, stopped, watch, calls, restartMu,
                 ctxDone, ghosts, crashes>>

(* A bug to catch: a process that ignores the request is left. *)
CloseEndLeaves ==
  /\ closer.pc = "stop"
  /\ closer' = [closer EXCEPT !.pc = "closed"]
  /\ UNCHANGED <<spawned, alive, state, watch, calls, restartMu, ctxDone, ghosts, crashes>>

(* ... asks the process to stop, and escalates until it has. *)
CloseEnd ==
  /\ closer.pc = "stop"
  /\ alive' = alive \ {closer.p}
  /\ closer' = [closer EXCEPT !.pc = "closed"]
  /\ UNCHANGED <<spawned, state, watch, calls, restartMu, ctxDone, ghosts, crashes>>

Next ==
  \/ Crash \/ WatchStep \/ Signal \/ CloseBegin \/ CloseEnd
  \/ \E c \in Callers : Poisoned(c) \/ RestartStep(c) \/ RestartCancelled(c)

(* Goroutines that can run do, the steps of a spawn are all timed, and main
   waits ten minutes at most between the signal and Close. *)
Fairness ==
  /\ WF_vars(WatchStep)
  /\ \A c \in Callers : WF_vars(RestartStep(c))
  /\ WF_vars(CloseBegin) /\ WF_vars(CloseEnd)

Spec == Init /\ [][Next]_vars
FairSpec == Spec /\ Fairness
-----------------------------------------------------------------------------
(* "Only one process may own the durable store", over crashes, failed starts,
   restarts and the close. *)
OneSidecar == Cardinality(alive) <= 1

(* Calls never go to a process that has been replaced. *)
ConnIsCurrent == conn # 0 => conn = proc

(* "waits until a fresh one has handshaken": what a restart hands back is not
   the process it killed.  Excused is a restart asked for in the middle of a
   spawn, whose connection is installed after the kill. *)
RestartIsFresh ==
  \A c \in Callers : calls[c].pc = "wait" /\ conn # 0 /\ ~midSpawn => conn > calls[c].victim

(* "A deliberate restart is not a crash: hand it a full budget": the supervisor gives
   up only when, since the last restart and the last healthy process, every attempt of
   the budget failed in a row.  Excepted is a restart that comes while watch respawns:
   watch goes on with its own count, and the failures of before (carried) count. *)
GivesUpAfterBudget ==
  [][stopped' # stopped => \/ failures > MaxRestarts
                           \/ carried > 0 /\ carried + failures > MaxRestarts]_vars

(* The same without the exception, as the comment says it. *)
RestartHasFullBudget == [][stopped' # stopped => failures > MaxRestarts]_vars

(* A dead sidecar is replaced, or given up, or the server is shutting down. *)
DeathIsAnswered == proc \notin alive ~> (conn # 0 /\ conn = proc) \/ stopped \/ ctxDone

(* Every restart returns: with a connection, or since there will be none. *)
RestartReturns == \A c \in Callers : calls[c].pc = "poisoned" ~> calls[c].pc = "done"

(* Once Close is over no sidecar is left for good, not even one that watch was
   about to spawn. *)
NothingLeft == closer.pc = "closed" ~> [](alive = {})

(* "Two turns that hit a poisoned session at the same moment must not kill each
   other's fresh sidecar." *)
RestartSparesFresh ==
  \A c \in Callers : calls[c].pc = "kill" => calls[c].victim <= calls[c].target
=============================================================================
