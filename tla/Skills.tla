------------------------------- MODULE Skills -------------------------------
(***************************************************************************)
(* The skills in the agent's prompt (internal/skills, handlers_skills.go): *)
(* the files of each, the list in the settings, the bundled one that a     *)
(* first start seeds and every start refreshes, and the requests that      *)
(* install, write, switch and remove them without a lock.                  *)
(***************************************************************************)
EXTENDS Naturals, Sequences

CONSTANTS
  Market, Bundle, (* a skill of the marketplace, and the bundled one         *)
  Handlers,       (* requests that may be under way at once                  *)
  MaxAsked, MaxBoots (* bounds: requests, and starts of the server           *)

VARIABLES
  boot,           (* of the start of the server, and "up"                    *)
  ships,          (* the release of the running binary                       *)
  recorded,       (* the manifest's hash of the bundled skill                *)
  files, skills,  (* what is on disk; the switches of each name's entries in  *)
                  (* the persisted list, in their order                      *)
  seeded,         (* the setting that records the seed                       *)
  handling,       (* what each request is in the middle of                   *)
  boots, requests,
  removed, broken, crossing (* what the properties remember                  *)

skillVars == <<boot, ships, recorded, files, skills, seeded, handling, boots, requests,
               removed, broken, crossing>>

Names == {Market, Bundle}
Releases == {"v1", "v2"}
NoRequest == [at |-> "free"]

TypeOK ==
  /\ boot \in {"down", "seed", "seed_list", "seed_flag", "refresh", "record", "up"}
  /\ ships \in Releases /\ recorded \in Releases \cup {"none"}
  /\ files \in [Names -> {"none", "part", "market", "own"} \cup Releases]
  /\ skills \in [Names -> Seq(BOOLEAN)]
  /\ seeded \in BOOLEAN
  /\ \A h \in Handlers : handling[h].at \in {"free", "download", "list", "save"}

Init ==
  /\ boot = "seed" /\ ships = "v1" /\ recorded = "none"
  /\ files = [n \in Names |-> "none"] /\ skills = [n \in Names |-> <<>>] /\ seeded = FALSE
  /\ handling = [h \in Handlers |-> NoRequest]
  /\ boots = 0 /\ requests = 0 /\ removed = FALSE /\ broken = {} /\ crossing = FALSE

Listed(list) == {n \in Names : list[n] # <<>>}
Without(list, n) == [list EXCEPT ![n] = <<>>]
Appended(list, n) == [list EXCEPT ![n] = Append(list[n], TRUE)]
Switched(list, n, on) == [list EXCEPT ![n] = <<on>> \o Tail(list[n])]
-----------------------------------------------------------------------------
(* ensureBuiltinSkills: once, files first, then the list, then the setting. *)
SeedNeeded == ~ seeded /\ Bundle \notin Listed(skills)

BootSeeds ==
  /\ boot = "seed"
  /\ IF SeedNeeded
     THEN /\ files' = [files EXCEPT ![Bundle] = ships] /\ recorded' = ships
          /\ boot' = "seed_list"
     ELSE /\ boot' = IF seeded THEN "refresh" ELSE "seed_flag"
          /\ UNCHANGED <<files, recorded>>
  /\ UNCHANGED <<ships, skills, seeded, handling, boots, requests, removed, broken, crossing>>

BootLists ==
  /\ boot = "seed_list" /\ boot' = "seed_flag"
  /\ skills' = Appended(skills, Bundle)
  /\ UNCHANGED <<ships, recorded, files, seeded, handling, boots, requests, removed, broken, crossing>>

(* A setting the store refuses is not reported. *)
BootFlags ==
  /\ boot = "seed_flag" /\ boot' = "refresh"
  /\ \/ seeded' = TRUE /\ UNCHANGED broken
     \/ broken' = broken \cup {Bundle} /\ UNCHANGED seeded
  /\ UNCHANGED <<ships, recorded, files, skills, handling, boots, requests, removed, crossing>>

(* refreshBuiltinSkills: what is listed and untouched, or untracked, is brought to
   the running release; the manifest follows. *)
Untouched == recorded = "none" \/ files[Bundle] \in {"none", recorded}

BootRefreshes ==
  /\ boot = "refresh"
  /\ IF Bundle \in Listed(skills) /\ Untouched /\ files[Bundle] # ships
     THEN files' = [files EXCEPT ![Bundle] = ships] /\ boot' = "record"
     ELSE /\ boot' = IF Bundle \in Listed(skills) /\ files[Bundle] = ships THEN "record" ELSE "up"
          /\ UNCHANGED files
  /\ UNCHANGED <<ships, recorded, skills, seeded, handling, boots, requests, removed, broken, crossing>>

BootRecordsHash ==
  /\ boot = "record" /\ boot' = "up" /\ recorded' = ships
  /\ UNCHANGED <<ships, files, skills, seeded, handling, boots, requests, removed, broken, crossing>>

Changing == {h \in Handlers : handling[h] # NoRequest}

(* The process dies: what a request or the refresh was writing stays as it is. *)
Die ==
  /\ boot # "down" /\ boots < MaxBoots /\ boot' = "down"
  /\ broken' = broken \cup {handling[h].id : h \in Changing} \cup
               IF boot = "record" THEN {Bundle} ELSE {}
  /\ handling' = [h \in Handlers |-> NoRequest]
  /\ UNCHANGED <<ships, recorded, files, skills, seeded, boots, requests, removed, crossing>>

Boot ==
  /\ boot = "down" /\ boot' = "seed" /\ boots' = boots + 1 /\ ships' \in {ships, "v2"}
  /\ UNCHANGED <<recorded, files, skills, seeded, handling, requests, removed, broken, crossing>>
-----------------------------------------------------------------------------
Accepts(h) == boot = "up" /\ handling[h] = NoRequest /\ requests < MaxAsked
Count == requests' = requests + 1
To(h, r) == handling' = [handling EXCEPT ![h] = r]

(* skills.Install clears the directory before it asks for anything; a download that
   fails leaves what there is of it, and the list as it was. *)
InstallWipes(h) ==
  /\ Accepts(h) /\ Count
  /\ files' = [files EXCEPT ![Market] = "part"]
  /\ To(h, [at |-> "download", id |-> Market])
  /\ UNCHANGED <<boot, ships, recorded, skills, seeded, boots, removed, broken, crossing>>

InstallDownloads(h) ==
  /\ handling[h].at = "download"
  /\ files' = [files EXCEPT ![Market] = "market"]
  /\ To(h, [at |-> "list", id |-> Market])
  /\ UNCHANGED <<boot, ships, recorded, skills, seeded, boots, requests, removed, broken, crossing>>

InstallFails(h) ==
  /\ handling[h].at = "download"
  /\ broken' = broken \cup {Market}
  /\ To(h, NoRequest)
  /\ UNCHANGED <<boot, ships, recorded, files, skills, seeded, boots, requests, removed, crossing>>

(* A bundled skill is written from the binary, over what is there. *)
InstallBundled(h) ==
  /\ Accepts(h) /\ Count
  /\ files' = [files EXCEPT ![Bundle] = ships] /\ recorded' = ships /\ removed' = FALSE
  /\ To(h, [at |-> "list", id |-> Bundle])
  /\ UNCHANGED <<boot, ships, skills, seeded, boots, broken, crossing>>

(* Then the list is read, and stored: a marketplace skill replaces its entry, a
   bundled one is appended whatever is there. *)
InstallLists(h) ==
  /\ handling[h].at = "list"
  /\ LET n == handling[h].id
         kept == IF n = Market THEN Without(skills, n) ELSE skills
     IN To(h, [at |-> "save", id |-> n, read |-> skills,
               list |-> Appended(kept, n)])
  /\ UNCHANGED <<boot, ships, recorded, files, skills, seeded, boots, requests, removed, broken, crossing>>

(* create_skill: the list is read, the file is written, the list is stored. *)
CreateSkill(h, n) ==
  /\ Accepts(h) /\ Count
  /\ files' = [files EXCEPT ![n] = "own"]
  /\ removed' = (removed /\ n # Bundle)
  /\ To(h, [at |-> "save", id |-> n, read |-> skills,
            list |-> IF n \in Listed(skills)
                     THEN Switched(skills, n, TRUE) ELSE Appended(skills, n)])
  /\ UNCHANGED <<boot, ships, recorded, skills, seeded, boots, broken, crossing>>

(* handleSkillsToggle changes the first entry only. *)
Toggle(h, n, on) ==
  /\ Accepts(h) /\ Count /\ n \in Listed(skills)
  /\ To(h, [at |-> "save", id |-> n, read |-> skills, list |-> Switched(skills, n, on)])
  /\ UNCHANGED <<boot, ships, recorded, files, skills, seeded, boots, removed, broken, crossing>>

RemoveSkill(h, n) ==
  /\ Accepts(h) /\ Count /\ n \in Listed(skills)
  /\ files' = [files EXCEPT ![n] = "none"]
  /\ removed' = (removed \/ n = Bundle)
  /\ To(h, [at |-> "save", id |-> n, read |-> skills, list |-> Without(skills, n)])
  /\ UNCHANGED <<boot, ships, recorded, skills, seeded, boots, broken, crossing>>

Saves(h) ==
  /\ handling[h].at = "save"
  /\ skills' = handling[h].list
  /\ crossing' = (crossing \/ Changing # {h} \/ handling[h].read # skills)
  /\ To(h, NoRequest)
  /\ UNCHANGED <<boot, ships, recorded, files, seeded, boots, requests, removed, broken>>

SaveRefused(h) ==
  /\ handling[h].at = "save"
  /\ broken' = broken \cup {handling[h].id}
  /\ To(h, NoRequest)
  /\ UNCHANGED <<boot, ships, recorded, files, skills, seeded, boots, requests, removed, crossing>>
-----------------------------------------------------------------------------
Next ==
  \/ BootSeeds \/ BootLists \/ BootFlags \/ BootRefreshes \/ BootRecordsHash \/ Die \/ Boot
  \/ \E h \in Handlers :
       \/ InstallWipes(h) \/ InstallDownloads(h) \/ InstallFails(h) \/ InstallBundled(h)
       \/ InstallLists(h) \/ Saves(h) \/ SaveRefused(h)
       \/ \E n \in Names : CreateSkill(h, n) \/ RemoveSkill(h, n) \/ \E on \in BOOLEAN : Toggle(h, n, on)

Spec == Init /\ [][Next]_skillVars
-----------------------------------------------------------------------------
(* ensureBuiltinSkills: a bundled skill the user removed does not come back by a
   restart, wherever the seed or the removal was cut off. *)
RemovedStays ==
  removed /\ ~ crossing /\ Changing = {} /\ Bundle \notin broken => Bundle \notin Listed(skills)

(* SystemPrompt: a listed skill has the files it was installed with, unless requests
   crossed or one of it failed. *)
ListedIsWhole ==
  ~ crossing /\ Changing = {} =>
    \A n \in Listed(skills) \ broken : files[n] \notin {"none", "part"}

(* RefreshBuiltins: after a start the untouched bundled skill is the release's. *)
RefreshReaches ==
  boot = "up" /\ Changing = {} /\ ~ crossing /\ Bundle \in Listed(skills) \ broken
    => files[Bundle] \in {ships, "own"}
=============================================================================
