------------------------------- MODULE Preview -------------------------------
(***************************************************************************)
(* The preview manager (internal/preview/preview.go): dev servers and      *)
(* static previews under a cap, with starts one after another behind       *)
(* startMu, stops, the idle sweep, and servers that exit when they like.   *)
(***************************************************************************)
EXTENDS Naturals, FiniteSets

CONSTANTS
  Projects,
  Cap,         (* Manager.max                                              *)
  MaxPreviews  (* bound: starts that make a preview                        *)

VARIABLES
  items,     (* the preview of each project, 0 when there is none          *)
  project, mode, running, process,   (* of each preview                    *)
  made,      (* how many previews there are                                *)
  older,     (* pairs of previews: the first was used less recently        *)
  starting,  (* the preview whose Start holds startMu, and where it is     *)
  kills,     (* previews evicted whose kill is still to come               *)
  idle,      (* previews the sweep found idle and has yet to stop          *)
  orphans    (* previews taken off the map before their server started     *)

previewVars == <<items, project, mode, running, process, made, older, starting, kills, idle,
                 orphans>>

Previews == 1 .. MaxPreviews
Nobody == "nobody"
Listed == {items[p] : p \in Projects} \ {0}
NoStart == [at |-> "none", of |-> 0]

TypeOK ==
  /\ items \in [Projects -> 0 .. made]
  /\ project \in [Previews -> Projects \cup {Nobody}]
  /\ mode \in [Previews -> {"static", "node"}]
  /\ running \in [Previews -> BOOLEAN]
  /\ process \in [Previews -> {"none", "up", "exited", "reaped"}]
  /\ made \in 0 .. MaxPreviews
  /\ older \subseteq (1 .. made) \X (1 .. made)
  /\ starting.at \in {"none", "install", "wait", "open"} /\ starting.of \in 0 .. made
  /\ kills \subseteq 1 .. made /\ orphans \subseteq 1 .. made
  /\ idle \subseteq Projects
  /\ \A p \in Projects : items[p] # 0 => project[items[p]] = p
  /\ \A v \in Previews : mode[v] = "static" => process[v] = "none"

Init ==
  /\ items = [p \in Projects |-> 0]
  /\ project = [v \in Previews |-> Nobody] /\ mode = [v \in Previews |-> "static"]
  /\ running = [v \in Previews |-> FALSE] /\ process = [v \in Previews |-> "none"]
  /\ made = 0 /\ older = {} /\ starting = NoStart
  /\ kills = {} /\ idle = {} /\ orphans = {}
-----------------------------------------------------------------------------
Touched(v) ==
  {e \in older : e[1] # v /\ e[2] # v} \cup {<<u, v>> : u \in (1 .. made) \ {v}}

Running(its, run) == {p \in Projects : its[p] # 0 /\ run[its[p]]}

(* A bug to catch: nothing is evicted. *)
NoVictims(its, run, except) == {}

(* evictLocked: at the cap the least recently used other running preview goes. *)
Victims(its, run, except) ==
  IF Cardinality(Running(its, run)) < Cap THEN {}
  ELSE LET others == {its[p] : p \in Running(its, run) \ {except}}
       IN {v \in others : \A u \in others : u = v \/ <<v, u>> \in older}

Without(its, gone) == [p \in Projects |-> IF its[p] \in gone THEN 0 ELSE its[p]]

(* Start: the preview that runs is used again. *)
StartAgain(p) ==
  /\ starting = NoStart /\ items[p] # 0 /\ running[items[p]]
  /\ older' = Touched(items[p])
  /\ UNCHANGED <<items, project, mode, running, process, made, starting, kills, idle, orphans>>

(* Start without a package.json: the preview is in the map when the cap is looked
   at. *)
StartStatic(p) ==
  LET v == made + 1
      run == [running EXCEPT ![v] = TRUE]
      its == [items EXCEPT ![p] = v]
      gone == Victims(its, run, p)
  IN /\ starting = NoStart /\ made < MaxPreviews
     /\ project' = [project EXCEPT ![v] = p]
     /\ items[p] # 0 => ~running[items[p]]
     /\ made' = v /\ running' = run
     /\ items' = Without(its, gone) /\ kills' = kills \cup gone
     /\ older' = Touched(v)
     /\ UNCHANGED <<mode, process, starting, idle, orphans>>

(* Start with one: the cap first, then the map, then ports and installs. *)
StartNode(p) ==
  LET v == made + 1
      gone == Victims(items, running, p)
  IN /\ starting = NoStart /\ made < MaxPreviews
     /\ project' = [project EXCEPT ![v] = p] /\ mode' = [mode EXCEPT ![v] = "node"]
     /\ items[p] # 0 => ~running[items[p]]
     /\ made' = v
     /\ items' = [Without(items, gone) EXCEPT ![p] = v] /\ kills' = kills \cup gone
     /\ older' = Touched(v)
     /\ starting' = [at |-> "install", of |-> v]
     /\ UNCHANGED <<running, process, idle, orphans>>

(* cmd.Start, whatever happened to the map since. *)
StartProcess ==
  LET v == starting.of IN
  /\ starting.at = "install"
  /\ process' = [process EXCEPT ![v] = "up"]
  /\ starting' = [starting EXCEPT !.at = "wait"]
  /\ orphans' = IF v \in Listed THEN orphans ELSE orphans \cup {v}
  /\ UNCHANGED <<items, project, mode, running, made, older, kills, idle>>

KillServer(v) ==
  process' = IF process[v] = "up" THEN [process EXCEPT ![v] = "exited"] ELSE process

(* fail: the install, the port, the exit of the server or the time it takes. *)
StartFails ==
  LET v == starting.of IN
  /\ starting.at \in {"install", "wait"}
  /\ KillServer(v)
  /\ running' = [running EXCEPT ![v] = FALSE]
  /\ items' = [items EXCEPT ![project[v]] = 0]
  /\ starting' = NoStart
  /\ UNCHANGED <<project, mode, made, older, kills, idle, orphans>>

(* The dial succeeds, unless the exit has been seen. *)
PortOpens ==
  /\ starting.at = "wait" /\ process[starting.of] = "up"
  /\ starting' = [starting EXCEPT !.at = "open"]
  /\ UNCHANGED <<items, project, mode, running, process, made, older, kills, idle, orphans>>

StartReturns ==
  /\ starting.at = "open"
  /\ running' = [running EXCEPT ![starting.of] = TRUE]
  /\ starting' = NoStart
  /\ UNCHANGED <<items, project, mode, process, made, older, kills, idle, orphans>>
-----------------------------------------------------------------------------
ServerExits(v) ==
  /\ process[v] = "up"
  /\ process' = [process EXCEPT ![v] = "exited"]
  /\ UNCHANGED <<items, project, mode, running, made, older, starting, kills, idle, orphans>>

(* The goroutine that waits for the server. *)
WaitReturns(v) ==
  /\ process[v] = "exited"
  /\ process' = [process EXCEPT ![v] = "reaped"]
  /\ running' = [running EXCEPT ![v] = FALSE]
  /\ UNCHANGED <<items, project, mode, made, older, starting, kills, idle, orphans>>

(* kill of a victim, by a goroutine of its own. *)
KillVictim(v) ==
  /\ v \in kills
  /\ kills' = kills \ {v}
  /\ KillServer(v) /\ running' = [running EXCEPT ![v] = FALSE]
  /\ UNCHANGED <<items, project, mode, made, older, starting, idle, orphans>>

(* Stop; kill finds no command while the start still installs. *)
StopPreview(p) ==
  LET v == items[p] IN
  /\ v # 0
  /\ items' = [items EXCEPT ![p] = 0]
  /\ KillServer(v) /\ running' = [running EXCEPT ![v] = FALSE]
  /\ UNCHANGED <<project, mode, made, older, starting, kills, orphans>>

Stop(p) == StopPreview(p) /\ UNCHANGED idle

StopAll ==
  /\ Listed # {}
  /\ items' = [p \in Projects |-> 0]
  /\ process' = [v \in Previews |-> IF v \in Listed /\ process[v] = "up" THEN "exited"
                                    ELSE process[v]]
  /\ running' = [v \in Previews |-> running[v] /\ v \notin Listed]
  /\ UNCHANGED <<project, mode, made, older, starting, kills, idle, orphans>>

(* sweepIdle: a snapshot of idle previews, stopped after the unlock by project. *)
SweepFinds ==
  /\ idle = {}
  /\ \E old \in SUBSET Running(items, running) : old # {} /\ idle' = old
  /\ UNCHANGED <<items, project, mode, running, process, made, older, starting, kills, orphans>>

SweepStops(p) ==
  /\ p \in idle /\ idle' = idle \ {p}
  /\ IF items[p] # 0 THEN StopPreview(p)
     ELSE UNCHANGED <<items, project, mode, running, process, made, older, starting, kills,
                      orphans>>

(* Get *)
Use(p) ==
  /\ items[p] # 0 /\ running[items[p]]
  /\ older' = Touched(items[p])
  /\ UNCHANGED <<items, project, mode, running, process, made, starting, kills, idle, orphans>>

Next ==
  \/ \E p \in Projects : StartAgain(p) \/ StartStatic(p) \/ StartNode(p) \/ Stop(p) \/ SweepStops(p) \/ Use(p)
  \/ StartProcess \/ StartFails \/ PortOpens \/ StartReturns
  \/ \E v \in Previews : ServerExits(v) \/ WaitReturns(v) \/ KillVictim(v)
  \/ StopAll \/ SweepFinds

Spec == Init /\ [][Next]_previewVars
-----------------------------------------------------------------------------
(* evictLocked: no more previews run at once than the cap, over starts, failures,
   stops, sweeps and exits. *)
CapHolds == Cardinality(Running(items, running)) <= Cap

(* A dev server that runs can be stopped: its preview is in the map or its kill is
   to come, unless it was stopped while its start installed. *)
ServersReachable ==
  \A v \in Previews : process[v] = "up" => v \in Listed \cup kills \cup orphans

(* "Stop stops a project's preview and removes it from the manager." *)
StopStops == orphans = {}

(* "Get returns the running preview": a preview whose server was reaped does not
   read as running. *)
RunningIsUp == \A v \in Previews : running[v] /\ mode[v] = "node" => process[v] # "reaped"
=============================================================================
