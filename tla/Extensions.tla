----------------------------- MODULE Extensions -----------------------------
(***************************************************************************)
(* The extensions a user adds to the agent: their sources on disk and the  *)
(* list in the settings (internal/extensions, handlers_extensions.go), the *)
(* bundled ones that every start looks after, and the sidecar that loads   *)
(* and runs them (extensions.js, reloadExtensions of host.js).  Requests   *)
(* run beside each other without a lock, and a reload spans awaits.        *)
(***************************************************************************)
EXTENDS Naturals

CONSTANTS
  Own, Bundled,  (* ids of the user's extensions and of the ones v1 ships    *)
  Requests,      (* handlers that may be under way at once                   *)
  MaxVersion,    (* bound: versions of a saved source, and of v1             *)
  MaxRequests,   (* bound: requests ever                                     *)
  MaxStarts      (* bound: starts of the server, and of the sidecar          *)

VARIABLES
  stage,         (* of the start of the server, and "up"                     *)
  shipped,       (* the version of the running binary's bundled sources      *)
  manifest,      (* .v1-builtins.json: the hash last written                 *)
  source, entry, (* the files, and the persisted list                        *)
  request,       (* what each handler is in the middle of                    *)
  sidecar, loads, loaded, (* the process, reloads inside it, what runs       *)
  starts, asked, (* starts and requests so far                               *)
  told, mixed, crossed, halved, overwritten, newest (* for the properties    *)

diskVars == <<shipped, manifest, source>>
sideVars == <<sidecar, loads, loaded, told>>
extVars == <<stage, diskVars, entry, request, sideVars, starts, asked, mixed, crossed, halved,
             overwritten, newest>>

Ext == Own \cup Bundled
VersionNumbers == 1 .. MaxVersion
None == [by |-> "none", v |-> 0]
By(who, v) == [by |-> who, v |-> v]
Free == [at |-> "free"]

TypeOK ==
  /\ stage \in {"down", "write", "manifest", "list", "up"}
  /\ shipped \in VersionNumbers /\ DOMAIN manifest \subseteq Bundled
  /\ source \in [Ext -> {None} \cup {By(w, v) : w \in {"v1", "user"}, v \in VersionNumbers}]
  /\ DOMAIN entry \subseteq Ext
  /\ \A e \in DOMAIN entry : entry[e].on \in BOOLEAN /\ entry[e].v \in 0 .. MaxVersion
  /\ \A r \in Requests :
       request[r].at \in {"free", "write", "listed", "dropped", "reload", "call", "loading"}
  /\ sidecar \in {"down", "opening", "up"} /\ DOMAIN loaded \subseteq Ext
  /\ starts \in 0 .. MaxStarts /\ asked \in 0 .. MaxRequests

Init ==
  /\ stage = "write" /\ shipped = 1 /\ manifest = <<>>
  /\ source = [e \in Ext |-> None] /\ entry = <<>>
  /\ request = [r \in Requests |-> Free]
  /\ sidecar = "down" /\ loads = {} /\ loaded = <<>> /\ starts = 0 /\ asked = 0
  /\ told = FALSE /\ mixed = FALSE /\ crossed = {} /\ halved = FALSE
  /\ overwritten = {} /\ newest = [e \in Ext |-> 0]

OnDisk == {e \in Ext : source[e] # None}

(* Reconcile: what is on disk, an entry of its own for what the list lacks. *)
Reconciled ==
  [e \in OnDisk |-> IF e \in DOMAIN entry THEN entry[e] ELSE [on |-> FALSE, v |-> 0]]

Enabled == {e \in OnDisk : Reconciled[e].on}
-----------------------------------------------------------------------------
(* Materialize: a bundled source that is missing, untouched or untracked is
   written, and the manifest is written after all of them. *)
Tracked(b) == b \in DOMAIN manifest
Touched(b) == Tracked(b) /\ source[b] # manifest[b]
Rewritten == {b \in Bundled : source[b] = None \/ ~ Touched(b)}

BootWrites ==
  /\ stage = "write" /\ stage' = "manifest"
  /\ source' = [e \in Ext |-> IF e \in Rewritten THEN By("v1", shipped) ELSE source[e]]
  /\ overwritten' = overwritten \cup {b \in Rewritten : Tracked(b) /\ source[b].by = "user"}
  /\ newest' = [e \in Ext |-> IF e \in Rewritten THEN 0 ELSE newest[e]]
  /\ UNCHANGED <<shipped, manifest, entry, request, sideVars, starts, asked, mixed, crossed, halved>>

BootRecords ==
  /\ stage = "manifest" /\ stage' = "list"
  /\ LET written == {b \in Bundled : source[b] = By("v1", shipped)} IN
       manifest' = [b \in written \cup DOMAIN manifest |->
                      IF b \in written THEN source[b] ELSE manifest[b]]
  /\ UNCHANGED <<shipped, source, entry, request, sideVars, starts, asked, mixed, crossed, halved,
                 overwritten, newest>>

(* ensureBuiltinExtensions: a bundled one without an entry is enabled. *)
BootLists ==
  /\ stage = "list" /\ stage' = "up"
  /\ entry' = [e \in DOMAIN entry \cup Bundled |->
                  IF e \in DOMAIN entry THEN entry[e] ELSE [on |-> TRUE, v |-> 0]]
  /\ UNCHANGED <<diskVars, request, sideVars, starts, asked, mixed, crossed, halved, overwritten, newest>>

(* The process dies at any point and comes back, perhaps as a newer version. *)
Stop ==
  /\ stage # "down" /\ starts < MaxStarts /\ stage' = "down"
  /\ request' = [r \in Requests |-> Free]
  /\ sidecar' = "down" /\ loads' = {} /\ loaded' = <<>> /\ told' = FALSE /\ mixed' = TRUE
  /\ halved' = (halved \/ stage = "manifest")
  /\ crossed' = crossed \cup {request[r].id : r \in {q \in Requests : request[q].at \in {"listed", "dropped"}}}
  /\ UNCHANGED <<diskVars, entry, starts, asked, overwritten, newest>>

Start ==
  /\ stage = "down" /\ stage' = "write" /\ starts' = starts + 1
  /\ shipped' \in {shipped, MaxVersion}
  /\ UNCHANGED <<manifest, source, entry, request, sideVars, asked, mixed, crossed, halved, overwritten, newest>>
-----------------------------------------------------------------------------
(* handleExtensionSave and createExtension: the list is read and the version
   compared, the file is written, then the list that was read is stored with the
   new entry. *)
Changing == {r \in Requests : request[r].at \in {"write", "listed", "dropped"}}
Reloading == {r \in Requests : request[r].at \in {"call", "loading"}}
Disturbed == mixed \/ Reloading # {} \/ loads # {}

Idle(r) == stage = "up" /\ request[r] = Free /\ asked < MaxRequests
Ask == asked' = asked + 1
Goes(r, to) == request' = [request EXCEPT ![r] = to]

MovesForward(e, v) == e \in OnDisk => v > Reconciled[e].v

SaveChecks(r, e, v, on) ==
  /\ Idle(r) /\ Ask /\ MovesForward(e, v)
  /\ Goes(r, [at |-> "write", id |-> e, v |-> v, on |-> on, read |-> Reconciled])
  /\ UNCHANGED <<stage, diskVars, entry, sideVars, starts, mixed, crossed, halved, overwritten, newest>>

SaveWrites(r) ==
  /\ request[r].at = "write"
  /\ LET e == request[r].id IN
       /\ source' = [source EXCEPT ![e] = By("user", request[r].v)]
       /\ newest' = [newest EXCEPT ![e] = IF request[r].v > @ THEN request[r].v ELSE @]
       /\ Goes(r, [request[r] EXCEPT !.at = "listed"])
  /\ crossed' = IF Changing = {r} THEN crossed ELSE crossed \cup {request[r].id}
  /\ mixed' = Disturbed
  /\ UNCHANGED <<stage, shipped, manifest, entry, sideVars, starts, asked, halved, overwritten>>

(* handleExtensionsToggle. *)
ToggleReads(r, e) ==
  /\ Idle(r) /\ Ask /\ e \in OnDisk
  /\ Goes(r, [at |-> "listed", id |-> e, v |-> Reconciled[e].v, on |-> ~ Reconciled[e].on,
              read |-> Reconciled])
  /\ UNCHANGED <<stage, diskVars, entry, sideVars, starts, mixed, crossed, halved, overwritten, newest>>

(* handleExtensionsRemove: the directory goes first. *)
RemoveDir(r, e) ==
  /\ Idle(r) /\ Ask /\ e \in Own
  /\ source' = [source EXCEPT ![e] = None] /\ newest' = [newest EXCEPT ![e] = 0]
  /\ Goes(r, [at |-> "dropped", id |-> e])
  /\ crossed' = IF Changing = {} THEN crossed ELSE crossed \cup {e}
  /\ mixed' = Disturbed
  /\ UNCHANGED <<stage, shipped, manifest, entry, sideVars, starts, halved, overwritten>>

RemoveLists(r) ==
  /\ request[r].at = "dropped"
  /\ entry' = [e \in OnDisk \ {request[r].id} |-> Reconciled[e]]
  /\ mixed' = Disturbed
  /\ Goes(r, [at |-> "reload"])
  /\ UNCHANGED <<stage, diskVars, sideVars, starts, asked, crossed, halved, overwritten, newest>>

(* saveExtensions stores the whole list as it was read; a store that refuses it
   ends the request with an error. *)
ListSaves(r) ==
  /\ request[r].at = "listed"
  /\ entry' = [e \in DOMAIN request[r].read \cup {request[r].id} |->
                  IF e = request[r].id THEN [on |-> request[r].on, v |-> request[r].v]
                  ELSE request[r].read[e]]
  /\ crossed' = IF Changing = {r} THEN crossed ELSE crossed \cup Ext
  /\ mixed' = Disturbed
  /\ Goes(r, [at |-> "reload"])
  /\ UNCHANGED <<stage, diskVars, sideVars, starts, asked, halved, overwritten, newest>>

ListRefused(r) ==
  /\ request[r].at \in {"listed", "dropped"}
  /\ crossed' = crossed \cup {request[r].id}
  /\ Goes(r, Free)
  /\ UNCHANGED <<stage, diskVars, entry, sideVars, starts, asked, mixed, halved, overwritten, newest>>
-----------------------------------------------------------------------------
(* reloadExtensions of the server: the enabled ids are read, a first call asks the
   sidecar for the settings it knows, a second carries the ids. *)
(* A request of its own, or the end of one that changed something. *)
ReloadAsked(r) ==
  \/ Idle(r) /\ Ask
  \/ request[r].at = "reload" /\ UNCHANGED asked

ReloadReads(r) ==
  /\ ReloadAsked(r) /\ sidecar = "up"
  /\ Goes(r, [at |-> "call", on |-> Enabled])
  /\ mixed' = (Reloading # {} \/ loads # {})
  /\ UNCHANGED <<stage, diskVars, entry, sideVars, starts, crossed, halved, overwritten, newest>>

(* A stopped harness is reported, not an error. *)
ReloadSkipped(r) ==
  /\ request[r].at \in {"reload", "call"} /\ sidecar # "up"
  /\ Goes(r, Free)
  /\ UNCHANGED <<stage, diskVars, entry, sideVars, starts, asked, mixed, crossed, halved, overwritten, newest>>

ReloadCalls(r) ==
  /\ request[r].at = "call" /\ sidecar = "up"
  /\ Goes(r, [at |-> "loading"])
  /\ loads' = loads \cup {[of |-> r, on |-> request[r].on, found |-> <<>>, at |-> "import"]}
  /\ told' = TRUE
  /\ UNCHANGED <<stage, diskVars, entry, sidecar, loaded, starts, asked, mixed, crossed, halved, overwritten, newest>>

(* The answer is late: the request ends, the reload goes on. *)
ReloadTimesOut(r) ==
  /\ request[r].at = "loading"
  /\ Goes(r, Free)
  /\ UNCHANGED <<stage, diskVars, entry, sideVars, starts, asked, mixed, crossed, halved, overwritten, newest>>

(* A bug to catch: every file on disk is imported. *)
ImportedAll(l) == [e \in OnDisk |-> source[e]]

(* loadExtensions of the sidecar: an extension that is not enabled is not even
   imported. *)
Imported(l) == [e \in OnDisk \cap l.on |-> source[e]]

LoadImports(l) ==
  /\ l \in loads /\ l.at = "import"
  /\ loads' = (loads \ {l}) \cup {[l EXCEPT !.at = "install", !.found = Imported(l)]}
  /\ UNCHANGED <<stage, diskVars, entry, request, sidecar, loaded, told, starts, asked, mixed, crossed,
                 halved, overwritten, newest>>

(* What was found is installed, what is no longer there is uninstalled. *)
LoadInstalls(l) ==
  /\ l \in loads /\ l.at = "install"
  /\ loads' = loads \ {l} /\ loaded' = l.found
  /\ sidecar' = "up"
  /\ request' = [r \in Requests |-> IF r = l.of /\ request[r].at = "loading" THEN Free ELSE request[r]]
  /\ UNCHANGED <<stage, diskVars, entry, told, starts, asked, mixed, crossed, halved, overwritten, newest>>

(* The sidecar opens with whatever is on disk: it has not been told which are
   enabled.  SetHarness tells it once, after the first start of the process. *)
SidecarOpens ==
  /\ stage = "up" /\ sidecar = "down" /\ sidecar' = "opening"
  /\ loads' = {[of |-> "open", on |-> Ext, found |-> <<>>, at |-> "import"]}
  /\ UNCHANGED <<stage, diskVars, entry, request, loaded, told, starts, asked, mixed, crossed, halved, overwritten, newest>>

SidecarDies ==
  /\ sidecar # "down" /\ starts < MaxStarts /\ starts' = starts + 1
  /\ sidecar' = "down" /\ loads' = {} /\ loaded' = <<>> /\ told' = FALSE /\ mixed' = TRUE
  /\ request' = [r \in Requests |-> IF request[r].at = "loading" THEN Free ELSE request[r]]
  /\ UNCHANGED <<stage, diskVars, entry, asked, crossed, halved, overwritten, newest>>
-----------------------------------------------------------------------------
Next ==
  \/ BootWrites \/ BootRecords \/ BootLists \/ Stop \/ Start \/ SidecarOpens \/ SidecarDies
  \/ \E r \in Requests :
       \/ \E e \in Ext : \/ \E v \in VersionNumbers, on \in BOOLEAN : SaveChecks(r, e, v, on)
                         \/ ToggleReads(r, e) \/ RemoveDir(r, e)
       \/ SaveWrites(r) \/ RemoveLists(r) \/ ListSaves(r) \/ ListRefused(r)
       \/ ReloadReads(r) \/ ReloadSkipped(r) \/ ReloadCalls(r) \/ ReloadTimesOut(r)
  \/ \E l \in loads : LoadImports(l) \/ LoadInstalls(l)

Spec == Init /\ [][Next]_extVars
-----------------------------------------------------------------------------
Quiet == loads = {} /\ \A r \in Requests : request[r] = Free

(* reloadExtensions: a sidecar that was told what is enabled, by reloads that did
   not overlap, runs exactly that, each in the source on disk. *)
LoadedIsEnabled ==
  Quiet /\ sidecar = "up" /\ told /\ ~ mixed /\ crossed = {} =>
    loaded = [e \in Enabled |-> source[e]]

(* createExtension: the installed source is the newest version ever installed, over
   failures and restarts, unless two requests crossed on it. *)
NewestStays ==
  \A e \in Ext : source[e].by = "user" /\ e \notin crossed => source[e].v = newest[e]

(* Materialize: an edited bundled source is never replaced, and an untouched one is
   the running version's, unless a start ended between the file and the manifest. *)
BundledHold ==
  /\ overwritten = {}
  /\ stage = "up" /\ ~ halved =>
       \A b \in Bundled : source[b].by = "user" \/ source[b] = By("v1", shipped)

(* SetHarness: a turn never runs an extension the user disabled (a sidecar that was
   restarted does; see the findings). *)
NeverDisabled ==
  Quiet /\ sidecar = "up" /\ ~ mixed /\ crossed = {} => DOMAIN loaded \subseteq Enabled
=============================================================================
