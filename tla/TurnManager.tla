---------------------------- MODULE TurnManager ----------------------------
(***************************************************************************)
(* turnManager of internal/server/turns.go: the registry of active runs,   *)
(* one per chat session at most, the cancel function each run registers,   *)
(* and the per-user count behind the concurrency cap.                      *)
(*                                                                         *)
(* A member of Runs is one call of streamChatTurn: the goroutine that won  *)
(* beginOrQueue.  Several of them, stop requests and new chat requests     *)
(* interleave; each method of turnManager holds the manager's mutex, so it *)
(* is one step.  A run that is stopped ends, except in a wait its context  *)
(* does not end; those waits are modelled: the mutex of mcp.Manager, and   *)
(* what a stuck run waits for.  What a refused or a queued chat request    *)
(* does to the queue is in ChatTurns; here it changes nothing.             *)
(***************************************************************************)
EXTENDS Naturals, FiniteSets

CONSTANTS
  Sessions,  (* runKey: a project and a session                            *)
  Users,     (* user ids; a handler always has one                         *)
  Runs,      (* identities for calls of streamChatTurn, reused when over   *)
  MaxRuns,   (* MaxConcurrentRunsPerUser; 0 disables the cap               *)
  MaxStops,  (* bound: stop requests between the lookup and the call       *)
  None

ASSUME TurnManagerAssumption ==
  /\ IsFiniteSet(Sessions)
  /\ Users # {}
  /\ MaxRuns \in Nat /\ MaxStops \in Nat
  /\ None \notin Runs

VARIABLES
  runs,      (* turnManager.runs: the active run of each session           *)
  cancels,   (* turnManager.cancels: whose cancel function is registered   *)
  userRuns,  (* turnManager.userRuns                                       *)
  pc,        (* where each call of streamChatTurn is                       *)
  sess,      (* the session it was called for                              *)
  owner,     (* runState.userID                                            *)
  ctx,       (* whether its context is cancelled                           *)
  fetched,   (* cancel functions a stop request read and has yet to call   *)
  mcpMu,     (* the run that holds mcp.Manager.mu                          *)
  stuck      (* runs in a wait that the end of their context does not end:
                an MCP request against a jammed reader or a full pipe, the
                output of a command that a child outside its group holds   *)

turnVars == <<runs, cancels, userRuns, pc, sess, owner, ctx, fetched>>
vars == <<turnVars, mcpMu, stuck>>

Reachable == {"syncing", "listing", "running", "ending"}
Active == {"begun"} \cup Reachable

TypeOK ==
  /\ runs \in [Sessions -> Runs \cup {None}]
  /\ cancels \in [Sessions -> Runs \cup {None}]
  /\ userRuns \in [Users -> Nat]
  /\ pc \in [Runs -> {"free"} \cup Active]
  /\ sess \in [Runs -> Sessions \cup {None}]
  /\ owner \in [Runs -> Users \cup {None}]
  /\ \A r \in Runs : pc[r] \in Active => sess[r] \in Sessions /\ owner[r] \in Users
  /\ ctx \in [Runs -> {"live", "cancelled"}]
  /\ fetched \subseteq Runs /\ stuck \subseteq Runs
  /\ mcpMu \in Runs \cup {None}
-----------------------------------------------------------------------------
Init ==
  /\ runs = [s \in Sessions |-> None]
  /\ cancels = [s \in Sessions |-> None]
  /\ userRuns = [u \in Users |-> 0]
  /\ pc = [r \in Runs |-> "free"]
  /\ sess = [r \in Runs |-> None] /\ owner = [r \in Runs |-> None]
  /\ ctx = [r \in Runs |-> "cancelled"]
  /\ fetched = {} /\ mcpMu = None /\ stuck = {}

(* A bug to catch: the cap is compared with > instead of >=. *)
BelowCapOffByOne(u) == MaxRuns > 0 => userRuns[u] <= MaxRuns

(* The per-user cap: it refuses a run only when it is set. *)
BelowCap(u) == MaxRuns > 0 => userRuns[u] < MaxRuns

(* A bug to catch: the active-run check is left out. *)
BeginUnchecked(r, s, u) ==
  /\ pc[r] = "free" /\ r \notin fetched
  /\ BelowCap(u)
  /\ runs' = [runs EXCEPT ![s] = r]
  /\ userRuns' = [userRuns EXCEPT ![u] = @ + 1]
  /\ pc' = [pc EXCEPT ![r] = "begun"]
  /\ sess' = [sess EXCEPT ![r] = s]
  /\ owner' = [owner EXCEPT ![r] = u]
  /\ ctx' = [ctx EXCEPT ![r] = "live"]
  /\ UNCHANGED <<cancels, fetched, mcpMu, stuck>>

(* beginOrQueue on an idle session below the cap: the caller owns a new run. *)
Begin(r, s, u) ==
  /\ pc[r] = "free" /\ r \notin fetched
  /\ runs[s] = None
  /\ BelowCap(u)
  /\ runs' = [runs EXCEPT ![s] = r]
  /\ userRuns' = [userRuns EXCEPT ![u] = @ + 1]
  /\ pc' = [pc EXCEPT ![r] = "begun"]
  /\ sess' = [sess EXCEPT ![r] = s]
  /\ owner' = [owner EXCEPT ![r] = u]
  /\ ctx' = [ctx EXCEPT ![r] = "live"]
  /\ UNCHANGED <<cancels, fetched, mcpMu, stuck>>

(* streamChatTurn gives up before it registers: the writer cannot stream. *)
NoStream(r) ==
  /\ pc[r] = "begun"
  /\ pc' = [pc EXCEPT ![r] = "ending"]
  /\ UNCHANGED <<runs, cancels, userRuns, sess, owner, ctx, fetched, mcpMu, stuck>>

(* register: the run becomes reachable by the stop endpoint. *)
Register(r) ==
  /\ pc[r] = "begun"
  /\ cancels' = [cancels EXCEPT ![sess[r]] = r]
  /\ pc' = [pc EXCEPT ![r] = "syncing"]
  /\ UNCHANGED <<runs, userRuns, sess, owner, ctx, fetched, mcpMu, stuck>>

(* The project's path, or the question that is left, cannot be dealt with. *)
EarlyReturn(r) ==
  /\ pc[r] = "syncing"
  /\ ctx' = [ctx EXCEPT ![r] = "cancelled"]
  /\ pc' = [pc EXCEPT ![r] = "ending"]
  /\ UNCHANGED <<runs, cancels, userRuns, sess, owner, fetched, mcpMu, stuck>>

(* Manager.Sync waits for the mutex, whatever becomes of the context ... *)
SyncLocks(r) ==
  /\ pc[r] = "syncing" /\ mcpMu = None
  /\ mcpMu' = r
  /\ pc' = [pc EXCEPT ![r] = "listing"]
  /\ UNCHANGED <<runs, cancels, userRuns, sess, owner, ctx, fetched, stuck>>

(* ... and keeps it until the servers have answered, which they need not do, or
   the context has ended. *)
SyncReturns(r) ==
  /\ pc[r] = "listing" /\ r \notin stuck
  /\ mcpMu' = None
  /\ pc' = [pc EXCEPT ![r] = "running"]
  /\ UNCHANGED <<runs, cancels, userRuns, sess, owner, ctx, fetched, stuck>>

(* A run waits for what its context does not end; and it may come. *)
Sticks(r) ==
  /\ pc[r] \in {"listing", "running"}
  /\ stuck' = stuck \cup {r}
  /\ UNCHANGED <<turnVars, mcpMu>>

Unsticks(r) ==
  /\ r \in stuck
  /\ stuck' = stuck \ {r}
  /\ UNCHANGED <<turnVars, mcpMu>>

(* The turn loop returns, and the deferred cancel runs. *)
Finish(r) ==
  /\ pc[r] = "running" /\ r \notin stuck
  /\ ctx' = [ctx EXCEPT ![r] = "cancelled"]
  /\ pc' = [pc EXCEPT ![r] = "ending"]
  /\ UNCHANGED <<runs, cancels, userRuns, sess, owner, fetched, mcpMu, stuck>>

(* streamChatTurn returns: nothing is left of the call. *)
Returns(r) ==
  /\ pc' = [pc EXCEPT ![r] = "free"] /\ ctx' = [ctx EXCEPT ![r] = "cancelled"]
  /\ sess' = [sess EXCEPT ![r] = None] /\ owner' = [owner EXCEPT ![r] = None]

(* A bug to catch: the slot of the run is never given back. *)
EndKeepsSlot(r) ==
  /\ pc[r] = "ending"
  /\ runs' = [runs EXCEPT ![sess[r]] = None]
  /\ cancels' = [cancels EXCEPT ![sess[r]] = None]
  /\ Returns(r)
  /\ UNCHANGED <<userRuns, fetched, mcpMu, stuck>>

(* A bug to catch: the cancel function outlives the run. *)
EndKeepsCancel(r) ==
  /\ pc[r] = "ending"
  /\ userRuns' = [userRuns EXCEPT ![owner[r]] = IF @ > 1 THEN @ - 1 ELSE 0]
  /\ runs' = [runs EXCEPT ![sess[r]] = None]
  /\ Returns(r)
  /\ UNCHANGED <<cancels, fetched, mcpMu, stuck>>

(* end, deferred by streamChatTurn: the run, its cancel function and its slot
   go in one step.  A count of one is deleted from the map, which reads 0. *)
End(r) ==
  /\ pc[r] = "ending"
  /\ userRuns' = [userRuns EXCEPT ![owner[r]] = IF @ > 1 THEN @ - 1 ELSE 0]
  /\ runs' = [runs EXCEPT ![sess[r]] = None]
  /\ cancels' = [cancels EXCEPT ![sess[r]] = None]
  /\ Returns(r)
  /\ UNCHANGED <<fetched, mcpMu, stuck>>

(* cancelRun reads the session's cancel function under the mutex ... *)
StopFetch(s) ==
  /\ cancels[s] # None /\ Cardinality(fetched) < MaxStops
  /\ fetched' = fetched \cup {cancels[s]}
  /\ UNCHANGED <<runs, cancels, userRuns, pc, sess, owner, ctx, mcpMu, stuck>>

(* A bug to catch: the stop is acknowledged and the function is not called. *)
StopIgnored(r) ==
  /\ r \in fetched
  /\ fetched' = fetched \ {r}
  /\ UNCHANGED <<runs, cancels, userRuns, pc, sess, owner, ctx, mcpMu, stuck>>

(* ... and calls it after the unlock. *)
StopCall(r) ==
  /\ r \in fetched
  /\ fetched' = fetched \ {r}
  /\ ctx' = [ctx EXCEPT ![r] = "cancelled"]
  /\ UNCHANGED <<runs, cancels, userRuns, pc, sess, owner, mcpMu, stuck>>

Next ==
  \/ \E r \in Runs, s \in Sessions, u \in Users : Begin(r, s, u)
  \/ \E r \in Runs :
       \/ NoStream(r) \/ Register(r) \/ EarlyReturn(r) \/ SyncLocks(r) \/ SyncReturns(r)
       \/ Sticks(r) \/ Unsticks(r) \/ Finish(r) \/ End(r) \/ StopCall(r)
  \/ \E s \in Sessions : StopFetch(s)

(* A goroutine that can run does run, and a mutex that comes free again and again is
   had in the end.  A run that is not stuck heeds the end of its context; nothing is
   assumed of one that was not stopped, nor of what a stuck one waits for. *)
Fairness ==
  \A r \in Runs :
    /\ WF_vars(Register(r))
    /\ SF_vars(SyncLocks(r))
    /\ WF_vars(ctx[r] = "cancelled" /\ (SyncReturns(r) \/ Finish(r)))
    /\ WF_vars(End(r))
    /\ WF_vars(StopCall(r))

Spec == Init /\ [][Next]_vars
FairSpec == Spec /\ Fairness
-----------------------------------------------------------------------------
(* The sessions whose active run the user started. *)
SessionsOf(u) == {s \in Sessions : runs[s] # None /\ owner[runs[s]] = u}

(* Every unit of a user's count is the run of one session: a slot is neither
   leaked (the user would be refused for ever) nor given back twice, over any
   interleaving of begin and the deferred end. *)
SlotAccounting == \A u \in Users : userRuns[u] = Cardinality(SessionsOf(u))

(* The cap holds whatever requests race in beginOrQueue. *)
CapRespected == MaxRuns > 0 => \A u \in Users : Cardinality(SessionsOf(u)) <= MaxRuns

(* Single flight: two calls of streamChatTurn for one session never overlap,
   from the begin of the one to the deferred end of the other. *)
SingleFlight ==
  \A r1, r2 \in Runs :
    pc[r1] \in Active /\ pc[r2] \in Active /\ sess[r1] = sess[r2] => r1 = r2

(* The stop endpoint of a session reaches the session's own active run or
   none: never an ended run's function, never another session's. *)
CancelTargetsRun ==
  \A s \in Sessions :
    cancels[s] # None => /\ runs[s] = cancels[s]
                         /\ pc[cancels[s]] \in Reachable

(* A stop that found the run's cancel function ends the run, and the session and the
   user's slot come free; unless the run is stuck again and again, or waits for ever
   for the mutex another run keeps, whose servers do not answer or which is stuck. *)
StoppedRunEnds ==
  \A r \in Runs :
    r \in fetched ~>
      \/ pc[r] = "free"
      \/ []<>(r \in stuck)
      \/ [](pc[r] = "syncing" /\ mcpMu # None)

(* "a user-initiated stop" (handlers_chat.go) is what a stop is for.  Not so of a run
   that waits for another one's MCP server, or for a command's output. *)
EveryStopEnds == \A r \in Runs : r \in fetched ~> pc[r] = "free"
=============================================================================
