------------------------------ MODULE NativeModel ------------------------------
(***************************************************************************)
(* The embedding model that runs inside the server                         *)
(* (internal/embed/native.go): its files are fetched from the repository   *)
(* on first use, one at a time under the runner's mutex, and stay on disk  *)
(* over restarts; the model is loaded once per process.                    *)
(***************************************************************************)
EXTENDS Naturals, FiniteSets

CONSTANTS
  Shards,      (* files of the weights, of a repository that splits them    *)
  MaxCalls     (* bound: calls of model() in a process                      *)

VARIABLES
  published,   (* the files of the repository                               *)
  disk,        (* files in the model's directory, under their own names     *)
  torn,        (* those of them that are not whole                          *)
  dirSet,      (* nativeRunner.dir is set                                   *)
  loaded,      (* nativeRunner.mod: "none", or how it pools                 *)
  call,        (* where the call that holds the mutex is                    *)
  calls

nativeVars == <<published, disk, torn, dirSet, loaded, call, calls>>
diskVars == <<published, disk, torn>>

Files == {"config", "tokenizer", "vocab", "pooling", "index", "weights"} \cup Shards
Tokenizers == {"tokenizer", "vocab"}
Stages == {"config", "tokenizer", "vocab", "pooling", "index", "shards", "weights", "load"}

TypeOK ==
  /\ published \subseteq Files /\ disk \subseteq published /\ torn \subseteq disk
  /\ dirSet \in BOOLEAN /\ loaded \in {"none", "mean", "cls"}
  /\ call \in Stages \cup {"idle"} /\ calls \in 0 .. MaxCalls

(* A repository has its weights in one file or in shards with an index; one that pools
   by the CLS token says so in a file of its own. *)
Repositories ==
  {{"config"} \cup t \cup p \cup w :
     t \in SUBSET Tokenizers, p \in {{}, {"pooling"}}, w \in {{"weights"}, {"index"} \cup Shards}}

Init ==
  /\ published \in Repositories
  /\ disk = {} /\ torn = {} /\ dirSet = FALSE /\ loaded = "none"
  /\ call = "idle" /\ calls = 0
-----------------------------------------------------------------------------
(* nativeRunner.model: the directory is set before its files are there, and a runner
   that has one goes straight to loading. *)
Call ==
  /\ call = "idle" /\ loaded = "none" /\ calls < MaxCalls
  /\ calls' = calls + 1 /\ dirSet' = TRUE
  /\ call' = IF dirSet THEN "load" ELSE "config"
  /\ UNCHANGED <<diskVars, loaded>>

HasTokenizer == disk \cap Tokenizers # {}

(* ensureFiles and ensureWeights: what comes after a file that is there... *)
After(stage) ==
  CASE stage = "config"    -> IF HasTokenizer THEN "pooling" ELSE "tokenizer"
    [] stage \in Tokenizers -> "pooling"
    [] stage = "pooling"   -> IF "weights" \in disk THEN "load" ELSE "index"
    [] stage = "index"     -> "shards"
    [] stage \in {"shards", "weights"} -> "load"

(* ... and after one that could not be had, where "idle" is the call's error. *)
Instead(stage) ==
  CASE stage = "tokenizer" -> "vocab"
    [] stage = "pooling"   -> After("pooling")
    [] stage = "index"     -> "weights"
    [] OTHER               -> "idle"

FileOf(stage) == IF stage = "shards" THEN Shards ELSE {stage}
Wanted == FileOf(call) \ disk
Fetching == call \in Stages \ {"load"}

AlreadyThere ==
  /\ Fetching /\ Wanted = {}
  /\ call' = After(call)
  /\ UNCHANGED <<diskVars, dirSet, loaded, calls>>

(* fetch: into a .part file, and renamed when it is whole. *)
Written(f) == disk' = disk \cup {f} /\ UNCHANGED torn

Fetch(f) ==
  /\ Fetching /\ f \in Wanted \cap published
  /\ Written(f)
  /\ UNCHANGED <<published, dirSet, loaded, call, calls>>

(* Not published, or the request failed; fetch tells no difference for a file that is
   not required. *)
FetchFails ==
  /\ Fetching /\ Wanted # {}
  /\ call' = Instead(call)
  /\ UNCHANGED <<diskVars, dirSet, loaded, calls>>

Complete ==
  "config" \in disk /\ HasTokenizer /\ ("weights" \in disk \/ ("index" \in disk /\ Shards \subseteq disk))

(* detectPooling and loadModel: a file that is torn may load, or not. *)
Load ==
  /\ call = "load" /\ call' = "idle"
  /\ \/ Complete /\ loaded' = IF "pooling" \in disk THEN "cls" ELSE "mean"
     \/ (~Complete \/ torn # {}) /\ UNCHANGED loaded
  /\ UNCHANGED <<diskVars, dirSet, calls>>

Restart ==
  /\ dirSet' = FALSE /\ loaded' = "none" /\ call' = "idle" /\ calls' = 0
  /\ UNCHANGED diskVars

Next ==
  \/ Call \/ AlreadyThere \/ FetchFails \/ Load \/ Restart
  \/ \E f \in Files : Fetch(f)

Spec == Init /\ [][Next]_nativeVars
-----------------------------------------------------------------------------
(* fetch: "an interrupted download can never be mistaken for a complete one on the next
   run": over failures and restarts a model is loaded of whole files, and of all the
   shards its index names. *)
LoadedWhole == loaded # "none" => Complete /\ torn = {}

(* embeddings.Downloaded, which the settings page shows: index or weights are there. *)
Downloaded == "config" \in disk /\ HasTokenizer /\ disk \cap {"weights", "index"} # {}

(* "Optional files: absent is fine, a real error is not": a repository that pools by
   the CLS token is loaded that way.  Not so after one failed request. *)
PoolsAsPublished == loaded # "none" => (loaded = "cls") = ("pooling" \in published)

(* "downloads whatever the model directory is missing": a call after one that failed
   tries again.  Not so in the same process. *)
FailureIsRetried == call = "load" => Complete
=============================================================================
