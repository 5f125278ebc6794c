------------------------------ MODULE Deploys -------------------------------
(***************************************************************************)
(* Deploying a project to Vercel (internal/server/handlers_vercel.go,      *)
(* internal/vercel, the vercel_deploys rows of internal/store) and         *)
(* connecting the account that does it.  A deploy is a row that outlives   *)
(* the process, a slot of the process that is read first, and a goroutine  *)
(* that polls Vercel and settles both.                                     *)
(***************************************************************************)
EXTENDS Naturals, FiniteSets

CONSTANTS
  Owners,      (* the users of the project                                  *)
  MaxDeploys,  (* bound: deploys ever started                               *)
  MaxStates    (* bound: OAuth states ever handed out                       *)

VARIABLES
  deployRow, slot, (* the rows by id, and vercelDeploys: [id, state] by user *)
  worker,      (* the goroutines: what each deploy is in the middle of       *)
  remote,      (* what Vercel has of each deploy                             *)
  nextDeploy, unsaved, (* the ids given out; writes the store refused        *)
  state, exchanging,   (* vercelFlows by state; callbacks beyond the lock    *)
  nextState, consumed, (* the states given out, and used by a callback       *)
  vercel       (* each user's settings: [token, source]                      *)

deployVars == <<deployRow, slot, worker, remote, nextDeploy, unsaved>>
connectVars == <<state, exchanging, nextState, consumed, vercel>>

Ids == 1 .. MaxDeploys
States == 1 .. MaxStates
Terminal == {"READY", "ERROR", "CANCELED"}
NoToken == [token |-> "", source |-> ""]

TypeOK ==
  /\ DOMAIN deployRow \subseteq Ids
  /\ \A d \in DOMAIN deployRow :
       deployRow[d].state \in {"BUILDING", "READY", "ERROR"} /\ deployRow[d].owner \in Owners
  /\ DOMAIN slot \subseteq Owners /\ DOMAIN worker \subseteq Ids
  /\ DOMAIN remote \subseteq Ids /\ nextDeploy \in 1 .. MaxDeploys + 1
  /\ DOMAIN state \subseteq States /\ nextState \in 1 .. MaxStates + 1
  /\ \A s \in DOMAIN state : state[s].owner \in Owners
  /\ DOMAIN vercel = Owners

Init ==
  /\ deployRow = <<>> /\ slot = <<>> /\ worker = <<>> /\ remote = <<>>
  /\ nextDeploy = 1 /\ unsaved = {}
  /\ state = <<>> /\ exchanging = {} /\ nextState = 1 /\ consumed = {}
  /\ vercel = [u \in Owners |-> NoToken]

Drop(f, x) == [y \in DOMAIN f \ {x} |-> f[y]]
With(f, x, v) == [y \in DOMAIN f \cup {x} |-> IF y = x THEN v ELSE f[y]]
Connected(u) == vercel[u].token # ""
-----------------------------------------------------------------------------
(* handleVercelDeploy: the files are read and the row is written, then the slot
   is set, in place of whatever deploy was there; a row the store refuses is only
   logged. *)
Deploy(u) ==
  /\ Connected(u) /\ nextDeploy \in Ids
  /\ nextDeploy' = nextDeploy + 1
  /\ worker' = With(worker, nextDeploy, [at |-> "accepted", owner |-> u])
  /\ \/ /\ deployRow' = With(deployRow, nextDeploy, [state |-> "BUILDING", owner |-> u])
        /\ UNCHANGED unsaved
     \/ /\ unsaved' = unsaved \cup {nextDeploy}
        /\ UNCHANGED deployRow
  /\ UNCHANGED <<slot, remote, connectVars>>

TakeSlot(d) ==
  /\ d \in DOMAIN worker /\ worker[d].at = "accepted"
  /\ slot' = With(slot, worker[d].owner, [id |-> d, state |-> "BUILDING"])
  /\ worker' = [worker EXCEPT ![d].at = "upload"]
  /\ UNCHANGED <<deployRow, remote, nextDeploy, unsaved, connectVars>>

(* Client.Deploy posts the files: Vercel has a deployment from then on, whether or
   not its answer arrives. *)
Upload(d) ==
  /\ d \in DOMAIN worker /\ worker[d].at = "upload" /\ d \notin DOMAIN remote
  /\ remote' = With(remote, d, "QUEUED")
  /\ worker' = [worker EXCEPT ![d].at = "poll"]
  /\ UNCHANGED <<deployRow, slot, nextDeploy, unsaved, connectVars>>

(* Vercel builds, and ends in its own time. *)
Builds(d, outcome) ==
  /\ d \in DOMAIN remote /\ remote[d] = "QUEUED"
  /\ remote' = [remote EXCEPT ![d] = outcome]
  /\ UNCHANGED <<deployRow, slot, worker, nextDeploy, unsaved, connectVars>>

(* The first half of the goroutine's end is the slot's own object: of the slot of
   the user only when no later deploy took it. *)
Settled(d, shown) ==
  LET u == worker[d].owner IN
    IF u \in DOMAIN slot /\ slot[u].id = d THEN [slot EXCEPT ![u].state = shown] ELSE slot

(* poll: a terminal state of any kind is returned without an error. *)
PollEnds(d) ==
  /\ d \in DOMAIN worker /\ worker[d].at = "poll" /\ remote[d] \in Terminal
  /\ slot' = Settled(d, remote[d])
  /\ worker' = [worker EXCEPT ![d].at = "ended"]
  /\ UNCHANGED <<deployRow, remote, nextDeploy, unsaved, connectVars>>

(* A request fails, the deadline of ten minutes or the context's of twelve passes. *)
PollFails(d) ==
  /\ d \in DOMAIN worker /\ worker[d].at \in {"upload", "poll"}
  /\ slot' = Settled(d, "ERROR")
  /\ worker' = [worker EXCEPT ![d].at = "failed"]
  /\ UNCHANGED <<deployRow, remote, nextDeploy, unsaved, connectVars>>

(* UpdateVercelDeploy: what returned without an error is READY. *)
RowState(w) == IF w.at = "ended" THEN "READY" ELSE "ERROR"

UpdateRow(d) ==
  /\ d \in DOMAIN worker /\ worker[d].at \in {"ended", "failed"}
  /\ worker' = Drop(worker, d)
  /\ \/ /\ deployRow' = [e \in DOMAIN deployRow |->
                           IF e = d THEN [deployRow[e] EXCEPT !.state = RowState(worker[d])]
                           ELSE deployRow[e]]
        /\ UNCHANGED unsaved
     \/ /\ unsaved' = unsaved \cup {d}
        /\ UNCHANGED deployRow
  /\ UNCHANGED <<slot, remote, nextDeploy, connectVars>>

(* A bug to catch: a start leaves the rows as they are. *)
LeftBuilding(rows) == [d \in DOMAIN rows |-> rows[d]]

(* FailInterruptedVercelDeploys, run by New before a request is served. *)
Interrupted(rows) ==
  [d \in DOMAIN rows |->
     IF rows[d].state = "BUILDING" THEN [rows[d] EXCEPT !.state = "ERROR"] ELSE rows[d]]

Restart ==
  /\ worker # <<>> \/ slot # <<>> \/ state # <<>>
  /\ slot' = <<>> /\ worker' = <<>> /\ state' = <<>> /\ exchanging' = {}
  /\ deployRow' = Interrupted(deployRow)
  /\ UNCHANGED <<remote, nextDeploy, unsaved, nextState, consumed, vercel>>
-----------------------------------------------------------------------------
(* handleVercelOAuthStart: what expired is pruned, then the flow is bound to the
   user who is logged in. *)
OAuthStart(u) ==
  /\ nextState \in States /\ nextState' = nextState + 1
  /\ state' = With([s \in {t \in DOMAIN state : ~ state[t].old} |-> state[s]],
                   nextState, [owner |-> u, old |-> FALSE])
  /\ UNCHANGED <<deployVars, exchanging, consumed, vercel>>

FlowExpires(s) ==
  /\ s \in DOMAIN state /\ ~ state[s].old
  /\ state' = [state EXCEPT ![s].old = TRUE]
  /\ UNCHANGED <<deployVars, exchanging, nextState, consumed, vercel>>

(* A callback without a session consumes nothing but what expired. *)
CallbackNoSession(s) ==
  /\ s \in DOMAIN state /\ state[s].old
  /\ state' = Drop(state, s)
  /\ UNCHANGED <<deployVars, exchanging, nextState, consumed, vercel>>

(* handleVercelOAuthCallback, under vercelMu: the flow goes whoever comes with it,
   and only its user's callback goes on to the exchange. *)
Consumed(s) == Drop(state, s)

Callback(s, u) ==
  /\ s \in DOMAIN state
  /\ state' = Consumed(s)
  /\ consumed' = IF u = state[s].owner /\ ~ state[s].old THEN consumed \cup {s} ELSE consumed
  /\ exchanging' = IF u = state[s].owner /\ ~ state[s].old
                   THEN exchanging \cup {[flow |-> s, owner |-> u, at |-> "exchange",
                                          again |-> s \in consumed]}
                   ELSE exchanging
  /\ UNCHANGED <<deployVars, nextState, vercel>>

ExchangeFails(x) ==
  /\ x \in exchanging /\ x.at = "exchange"
  /\ exchanging' = exchanging \ {x}
  /\ UNCHANGED <<deployVars, state, nextState, consumed, vercel>>

(* The token, then its source: two statements, and the refresh token between. *)
StoreToken(x) ==
  /\ x \in exchanging /\ x.at = "exchange"
  /\ exchanging' = (exchanging \ {x}) \cup {[x EXCEPT !.at = "source"]}
  /\ vercel' = [vercel EXCEPT ![x.owner].token = "oauth"]
  /\ UNCHANGED <<deployVars, state, nextState, consumed>>

StoreSource(x) ==
  /\ x \in exchanging /\ x.at = "source"
  /\ exchanging' = exchanging \ {x}
  /\ vercel' = [vercel EXCEPT ![x.owner].source = "oauth"]
  /\ UNCHANGED <<deployVars, state, nextState, consumed>>

(* The settings page: a token typed in, or none. *)
PutToken(u) ==
  /\ vercel[u].token # "pat"
  /\ vercel' = [vercel EXCEPT ![u] = [token |-> "pat", source |-> "pat"]]
  /\ UNCHANGED <<deployVars, state, exchanging, nextState, consumed>>

ClearToken(u) ==
  /\ Connected(u)
  /\ vercel' = [vercel EXCEPT ![u] = NoToken]
  /\ UNCHANGED <<deployVars, state, exchanging, nextState, consumed>>
-----------------------------------------------------------------------------
Next ==
  \/ \E u \in Owners : Deploy(u) \/ OAuthStart(u) \/ PutToken(u) \/ ClearToken(u)
  \/ \E d \in Ids : \/ TakeSlot(d) \/ Upload(d) \/ PollEnds(d) \/ PollFails(d) \/ UpdateRow(d)
                    \/ \E o \in Terminal : Builds(d, o)
  \/ \E s \in States : FlowExpires(s) \/ CallbackNoSession(s) \/ \E u \in Owners : Callback(s, u)
  \/ \E x \in exchanging : ExchangeFails(x) \/ StoreToken(x) \/ StoreSource(x)
  \/ Restart

vars == <<deployVars, connectVars>>
Spec == Init /\ [][Next]_vars
-----------------------------------------------------------------------------
(* handleVercelDeployments: the slot, and the user's latest row when there is none. *)
Mine(u) == {d \in DOMAIN deployRow : deployRow[d].owner = u}
Active(u) ==
  IF u \in DOMAIN slot THEN slot[u]
  ELSE IF Mine(u) = {} THEN [id |-> 0, state |-> "none"]
  ELSE LET d == CHOOSE e \in Mine(u) : \A f \in Mine(u) : f <= e
       IN [id |-> d, state |-> deployRow[d].state]

(* What is shown as being built is being built: over restarts, failures and
   deploys that overtake each other no page waits for a deploy nobody attends to. *)
BuildingIsAttended ==
  \A u \in Owners :
    Active(u).state = "BUILDING" => Active(u).id \in DOMAIN worker \/ Active(u).id \in unsaved

(* A deploy shown READY is one Vercel has and has ended, and the row says so for
   every later process unless the store refused it. *)
ReadyIsOver ==
  /\ \A u \in Owners :
       Active(u).state = "READY" => Active(u).id \in DOMAIN remote /\ remote[Active(u).id] \in Terminal
  /\ \A u \in DOMAIN slot :
       slot[u].state = "READY" /\ slot[u].id \notin DOMAIN worker \cup unsaved
         => deployRow[slot[u].id].state = "READY"

(* READY is of a build that succeeded (the code stores READY for every build that
   ended; see the findings). *)
ReadyIsReady ==
  \A u \in Owners : Active(u).state = "READY" => remote[Active(u).id] = "READY"

(* A state is exchanged once, and its token is stored for the user who began. *)
FlowOnce == \A x \in exchanging : ~ x.again
=============================================================================
