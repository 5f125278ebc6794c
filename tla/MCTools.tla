------------------------------- MODULE MCTools -------------------------------
(***************************************************************************)
(* What a turn works with, for TLC: MCP servers and the endpoint of the    *)
(* settings, previews and terminals, the tools that change files and run   *)
(* commands, the extensions and skills of the agent, and the project's git *)
(* repository with the checkpoints of the turns.  They share no variable,  *)
(* so a behaviour is one of one part; part says of which, and the others   *)
(* stay as they began.                                                     *)
(***************************************************************************)
EXTENDS Naturals, FiniteSets, Sequences

CONSTANTS
  Callers, Versions, MaxConns,
  Projects, Cap, MaxPreviews,
  Sockets,
  Tabs, Bases, MaxIds, MaxTyped, MaxPuts,
  Calls, Paths, MaxMarks,
  Own, Bundled, Changes, MaxVersion, MaxChanges, MaxStarts,
  Market, Bundle, Handlers, MaxAsked, MaxBoots,
  Sessions, Files, MaxWrites, MaxCommits, MaxPushes, MaxRequests

ASSUME ServersAssumption == IsFiniteSet(Callers) /\ MaxConns \in Nat
ASSUME EndpointAssumption ==
  MaxIds \in Nat /\ MaxTyped \in Nat /\ MaxPuts \in Nat /\ "none" \notin Bases
ASSUME ToolsAssumption ==
  /\ IsFiniteSet(Projects) /\ Cap \in Nat \ {0} /\ MaxPreviews \in Nat
  /\ MaxMarks \in Nat
ASSUME AddedAssumption ==
  /\ Own \cap Bundled = {} /\ MaxVersion \in Nat \ {0}
  /\ MaxChanges \in Nat /\ MaxStarts \in Nat
  /\ Market # Bundle
ASSUME RepoAssumption ==
  /\ {MaxWrites, MaxCommits, MaxPushes, MaxRequests} \subseteq Nat
  /\ "request" \notin Sessions

VARIABLES
  part,
  wanted, entry, holder, started, proc, reader, closed, pending, toFail, pc, what, on,
  loaded, outcome, ch, sent, replaced,
  items, project, mode, running, process, made, older, starting, kills, idle, orphans,
  there, socket, shell, registered, late,
  providers, own, limit, ids, typed, puts, doing, clean,
  calling, files, todos, todosShown, asking, waiting, answers, alive, next, kept, granted,
  crossed,
  stage, shipped, manifest, source, listed, request, sidecar, loads, installed, starts, asked,
  told, overlap, clashed, halved, overwritten, newest,
  boot, ships, recorded, skillFiles, skills, seeded, handling, boots, handled,
  removed, broken, crossing,
  disk, index, inited, commits, tips, branch, linked, origin, head, parents, checkpoint,
  pushing, requests, writes, leftBy, mixed, dropped, raced

Servers == INSTANCE ToolServers WITH made <- started
Previews == INSTANCE Preview
Shells == INSTANCE Terminal WITH project <- there
Endpoint == INSTANCE Settings WITH saved <- providers
Tools == INSTANCE Workspace WITH doing <- calling, mode <- asking
Ext == INSTANCE Extensions WITH entry <- listed, loaded <- installed, mixed <- overlap,
                                crossed <- clashed, Requests <- Changes,
                                MaxRequests <- MaxChanges
Prompt == INSTANCE Skills WITH files <- skillFiles, requests <- handled
Git == INSTANCE Repo WITH at <- head, on <- branch, base <- parents, left <- leftBy,
                          written <- writes

serverVars ==
  <<wanted, entry, holder, started, proc, reader, closed, pending, toFail, pc, what, on,
    loaded, outcome, ch, sent, replaced>>
previewVars ==
  <<items, project, mode, running, process, made, older, starting, kills, idle, orphans>>
shellVars == <<there, socket, shell, registered, late>>
endpointVars == <<providers, own, limit, ids, typed, puts, doing, clean>>
toolVars == <<calling, files, todos, todosShown, asking, waiting, answers, alive, next,
              kept, granted, crossed>>
extVars == <<stage, shipped, manifest, source, listed, request, sidecar, loads, installed, starts,
             asked, told, overlap, clashed, halved, overwritten, newest>>
skillVars == <<boot, ships, recorded, skillFiles, skills, seeded, handling, boots, handled,
               removed, broken, crossing>>
connectedVars == <<serverVars, previewVars, shellVars, endpointVars>>
agentVars == <<toolVars, extVars, skillVars>>
gitVars == <<disk, index, inited, commits, tips, branch, linked, origin, head, parents, checkpoint,
             pushing, requests, writes, leftBy, mixed, dropped, raced>>
vars == <<part, connectedVars, agentVars, gitVars>>

(* A part that does not run begins in one way. *)
PartsInit ==
  /\ part \in {"servers", "previews", "shells", "endpoint", "tools", "extensions", "skills",
               "git"}
  /\ Servers!Init /\ Previews!Init /\ Shells!Init /\ Endpoint!Init
  /\ Tools!Init /\ Ext!Init /\ Prompt!Init /\ Git!Init
  /\ part # "tools" => asking = "ask"

InServers(A) ==
  /\ part = "servers" /\ A
  /\ UNCHANGED <<part, previewVars, shellVars, endpointVars, agentVars, gitVars>>
InPreviews(A) ==
  /\ part = "previews" /\ A
  /\ UNCHANGED <<part, serverVars, shellVars, endpointVars, agentVars, gitVars>>
InShells(A) ==
  /\ part = "shells" /\ A
  /\ UNCHANGED <<part, serverVars, previewVars, endpointVars, agentVars, gitVars>>
InEndpoint(A) ==
  /\ part = "endpoint" /\ A
  /\ UNCHANGED <<part, serverVars, previewVars, shellVars, agentVars, gitVars>>
InTools(A) ==
  part = "tools" /\ A /\ UNCHANGED <<part, connectedVars, extVars, skillVars, gitVars>>
InExtensions(A) ==
  part = "extensions" /\ A /\ UNCHANGED <<part, connectedVars, toolVars, skillVars, gitVars>>
InSkills(A) ==
  part = "skills" /\ A /\ UNCHANGED <<part, connectedVars, toolVars, extVars, gitVars>>
InGit(A) ==
  part = "git" /\ A /\ UNCHANGED <<part, connectedVars, agentVars>>

PartsNext ==
  \/ InServers(Servers!Next) \/ InEndpoint(Endpoint!Next)
  \/ InPreviews(Previews!Next) \/ InShells(Shells!Next)
  \/ InTools(Tools!Next) \/ InExtensions(Ext!Next) \/ InSkills(Prompt!Next)
  \/ InGit(Git!Next)

PartsSpec == PartsInit /\ [][PartsNext]_vars

(* Where the exploration stops (the invariants are checked up to there and at it).  Of two
   ways to connect the second is taken only over a connection of the first, and it ends
   where one has replaced the other; previews end where a stopped one started its process,
   and the third preview has no sweep; the last PUT of the settings has no other beside it;
   extensions end where two requests crossed; the repository ends where two writers moved
   a branch from the HEAD they read before, and its last request finds no snapshot that was
   met by another. *)
First == CHOOSE v \in Versions : TRUE
Explored ==
  /\ part = "servers" =>
       /\ replaced = {}
       /\ \A v \in {wanted} \cup {loaded[c] : c \in Callers} :
            v \in {First, Servers!Off} \/ entry.of = First
  /\ part = "previews" => orphans = {} /\ (made = MaxPreviews => idle = {})
  /\ part = "endpoint" /\ puts = MaxPuts =>
       \E t \in Tabs : \A u \in Tabs : Endpoint!Busy(u) => t = u
  /\ part = "extensions" => clashed = {}
  /\ part = "git" => ~raced /\ (requests = MaxRequests => mixed = {})

(* Sync, Shutdown and the test: a process that runs has a client to close it; and
   readLoop: no request is left waiting on a process that is gone; handlePutSettings:
   the effective key follows the provider whose endpoint is the effective one. *)
ServersHeld ==
  /\ part = "servers" => Servers!TypeOK /\ Servers!ServersOwned /\ Servers!PendingFailed
  /\ part = "endpoint" => Endpoint!TypeOK /\ Endpoint!KeyFollows

(* readLoop: it never waits for a request that waits for it. *)
NeverJammed == part = "servers" => Servers!NeverJammed

(* evictLocked and kill: the cap holds, and a preview's server that runs can be
   stopped; ServeWS: a shell that runs has a socket to end it. *)
PreviewsHeld ==
  /\ part = "previews" => Previews!TypeOK /\ Previews!CapHolds /\ Previews!ServersReachable
  /\ part = "shells" => Shells!TypeOK /\ Shells!ShellsHeld

(* editFile, setTodos, turnPerm.Request, runCommand: edits that were answered ok are
   kept, the list on the screen is the stored one, nothing runs that was not allowed,
   and a stopped command leaves no writer behind. *)
WorkspaceHolds ==
  part = "tools" => /\ Tools!TypeOK /\ Tools!EditsKept /\ Tools!TodosShown
                    /\ Tools!AllowedFirst /\ Tools!GroupGone

(* reloadExtensions, createExtension, Materialize, ensureBuiltinSkills: what runs and
   what is in the prompt is what is enabled, in its newest source, over restarts. *)
AddedHold ==
  /\ part = "extensions" => /\ Ext!TypeOK /\ Ext!LoadedIsEnabled /\ Ext!NewestStays
                            /\ Ext!BundledHold
  /\ part = "skills" => /\ Prompt!TypeOK /\ Prompt!RemovedStays /\ Prompt!ListedIsWhole
                        /\ Prompt!RefreshReaches

(* Snapshot, HeadHash, StampTurn: the checkpoint of a turn restores the files the
   turn left, and no request loses a commit a turn made. *)
RepoHolds == part = "git" => Git!TypeOK /\ Git!CheckpointHolds /\ Git!CommitsKept
=============================================================================
