------------------------------- MODULE MCStore -------------------------------
(***************************************************************************)
(* What the store keeps beside the sessions, for TLC: accounts and who     *)
(* owns which project, the devices of accounts, memories with the model    *)
(* that embeds them, what a start does to the database it finds, the       *)
(* deploys, and the tokens of outside services.  They share no variable,   *)
(* so a behaviour is one of one part; part says of which, and the others   *)
(* stay as they began.                                                     *)
(***************************************************************************)
EXTENDS Naturals, Sequences

CONSTANTS
  MaxUsers, Projects, Clients,
  MaxTexts, MaxModels, CaptureLimit, Callers, MemoryCap, MaxMade,
  MaxRows, TopK, Budget,
  Shards, MaxCalls,
  PushAccounts, Browsers, Pushes, MaxKeys, MaxEndpoints,
  MaxNumber, Dirty,
  Owners, MaxDeploys, MaxStates,
  MaxTokens, MaxFlows

ASSUME AccountsAssumption == MaxUsers \in Nat
ASSUME PushAssumption == MaxKeys \in Nat /\ MaxEndpoints \in Nat
ASSUME OpenedAssumption == MaxUsers \in Nat \ {0} /\ MaxNumber \in Nat
ASSUME RecallAssumption ==
  /\ MaxTexts \in Nat /\ MaxModels \in Nat /\ MemoryCap \in Nat /\ MaxMade \in Nat
  /\ MaxRows \in Nat /\ TopK \in Nat /\ Budget \in Nat /\ MaxCalls \in Nat
ASSUME DeploysAssumption == MaxDeploys \in Nat /\ MaxStates \in Nat
ASSUME TokensAssumption == MaxTokens \in Nat /\ MaxFlows \in Nat

VARIABLES
  part,
  config, up, users, made, admins, logins, project, dirs, used, doing, crossed,
  memories, lastId, filling, remembering, met,
  kept, fading, turn,
  published, disk, partial, dirSet, loaded, call, calls,
  key, keysMade, sub, under, endpointsMade, table, request, posted, keysCrossed,
  pc, rebuilding, stored, spare, columns, password, anonymous, accounts, ownerless, names, seq,
  dirty, had, secured, stopped, gap, clash,
  deployRow, slot, worker, remote, nextDeploy, unsaved, state, exchanging, nextState,
  consumed, vercel,
  grant, issued, valid, flows, begun, devices, codes, token, source, writing,
  forgot, mixed, lost, torn

People == INSTANCE Accounts
Written == INSTANCE Memories WITH MaxRows <- MaxMade, doing <- remembering, crossed <- met
Read == INSTANCE Recall
Embedder == INSTANCE NativeModel WITH torn <- partial
Devices == INSTANCE Push WITH Accounts <- PushAccounts, Requests <- Pushes
Opened == INSTANCE Migration
  WITH step <- rebuilding, table <- stored, users <- accounts, Texts <- Dirty
Vercel == INSTANCE Deploys
Tokens == INSTANCE Grants WITH doing <- writing, asked <- codes

accountVars == <<config, up, users, made, admins, logins, project, dirs, used, doing, crossed>>
memoryVars == <<memories, lastId, filling, remembering, met>>
recallVars == <<kept, fading, turn>>
embedderVars == <<published, disk, partial, dirSet, loaded, call, calls>>
deviceVars == <<key, keysMade, sub, under, endpointsMade, table, request, posted, keysCrossed>>
openedVars == <<pc, rebuilding, stored, spare, columns, password, anonymous, accounts, ownerless,
                names, seq, dirty, had, secured, stopped, gap, clash>>
deployVars == <<deployRow, slot, worker, remote, nextDeploy, unsaved, state, exchanging,
                nextState, consumed, vercel>>
tokenVars == <<grant, issued, valid, flows, begun, devices, codes, token, source, writing,
               forgot, mixed, lost, torn>>
recordVars == <<accountVars, openedVars>>
recalledVars == <<memoryVars, recallVars, embedderVars>>
outsideVars == <<deviceVars, deployVars, tokenVars>>
vars == <<part, recordVars, recalledVars, outsideVars>>

(* A part that does not run begins in one way. *)
PartsInit ==
  /\ part \in {"people", "written", "read", "embedder", "devices", "opened", "deploys", "tokens"}
  /\ People!Init /\ Vercel!Init /\ Tokens!Init
  /\ part # "people" => dirs = {} /\ config = [password |-> TRUE, signup |-> TRUE, oidc |-> TRUE]
  /\ Written!Init /\ Devices!Init
  /\ IF part = "read" THEN Read!Init ELSE kept = <<>> /\ fading = {} /\ turn = Read!NoTurn
  /\ Embedder!Init
  /\ IF part = "opened" THEN Opened!Init ELSE Opened!Fresh
  /\ part # "embedder" => published = CHOOSE r \in Embedder!Repositories : TRUE

InPeople(A) ==
  part = "people" /\ A /\ UNCHANGED <<part, openedVars, recalledVars, outsideVars>>
InOpened(A) ==
  part = "opened" /\ A /\ UNCHANGED <<part, accountVars, recalledVars, outsideVars>>
InWritten(A) ==
  part = "written" /\ A /\ UNCHANGED <<part, recordVars, recallVars, embedderVars, outsideVars>>
InRead(A) ==
  part = "read" /\ A /\ UNCHANGED <<part, recordVars, memoryVars, embedderVars, outsideVars>>
InEmbedder(A) ==
  part = "embedder" /\ A /\ UNCHANGED <<part, recordVars, memoryVars, recallVars, outsideVars>>
InDevices(A) ==
  part = "devices" /\ A /\ UNCHANGED <<part, recordVars, recalledVars, deployVars, tokenVars>>
InDeploys(A) ==
  part = "deploys" /\ A /\ UNCHANGED <<part, recordVars, recalledVars, deviceVars, tokenVars>>
InTokens(A) ==
  part = "tokens" /\ A /\ UNCHANGED <<part, recordVars, recalledVars, deviceVars, deployVars>>

PartsNext ==
  \/ InPeople(People!Next) \/ InOpened(Opened!Next)
  \/ InWritten(Written!Next) \/ InRead(Read!Next) \/ InEmbedder(Embedder!Next)
  \/ InDevices(Devices!Next) \/ InDeploys(Vercel!Next) \/ InTokens(Tokens!Next)

PartsSpec == PartsInit /\ [][PartsNext]_vars

(* Where the exploration stops (the invariants are checked up to there and at it):
   accounts end where two requests crossed, and memories where two that say the same met;
   the store refuses the writes of one deploy, and Vercel is connected while no deploy is
   under way; grants end where a refresh overwrote another. *)
Explored ==
  /\ part = "people" => ~crossed
  /\ part = "written" => ~met
  /\ part = "deploys" =>
       /\ \A d, e \in unsaved : d = e
       /\ worker # <<>> => state = <<>> /\ exchanging = {}
  /\ part = "tokens" => ~mixed

(* An instance with accounts has an admin, and a project that is listed has its
   directory; a device that subscribed is reached under its account's key;
   and a database that opens is whole, with the rows of before, whatever statement
   the last start was stopped at, unless it was a rebuild's. *)
AccountsHold ==
  /\ part = "people" => People!TypeOK /\ People!AdminRemains /\ People!ListedHasDir
  /\ part = "devices" => Devices!TypeOK /\ Devices!DevicesListed /\ Devices!DevicesReachable
  /\ part = "opened" => /\ Opened!TypeOK /\ Opened!OpenedWhole /\ Opened!RowsCarried
                        /\ Opened!FailsOnlySo /\ Opened!NamesFresh

(* remember, backfillEmbeddings: a fact is kept once, under the cap, with the vector of
   its own text; Rank and ListMemories: a pinned one is neither passed over nor
   dropped; and the model that embeds them is loaded of whole files. *)
RecallHolds ==
  /\ part = "written" => Written!TypeOK /\ Written!KeptOnce /\ Written!VectorOfText
  /\ part = "read" => Read!TypeOK /\ Read!PinnedLead /\ Read!DropsOnlyFaded
  /\ part = "embedder" => Embedder!TypeOK /\ Embedder!LoadedWhole

(* handleVercelDeployments, FailInterruptedVercelDeploys: no page waits for a deploy
   nobody attends to, READY is of a build that ended, a flow is exchanged once. *)
DeploysHold ==
  part = "deploys" => /\ Vercel!TypeOK /\ Vercel!BuildingIsAttended /\ Vercel!ReadyIsOver
                      /\ Vercel!FlowOnce

(* AccessToken and githubTokenSource: a grant stays renewable, a grant the user
   disconnected stays away, and the source is the stored token's. *)
TokensHold == part = "tokens" => Tokens!TypeOK /\ Tokens!GrantUsable /\ Tokens!SourceIsTokens
=============================================================================
