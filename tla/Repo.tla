-------------------------------- MODULE Repo --------------------------------
(***************************************************************************)
(* A project's git repository (internal/gitops, go-git 5.13), the snapshot *)
(* and auto-push at the end of a turn (streamChatTurn) and the endpoints   *)
(* of handlers_git.go and handlers_github.go.  Nothing serializes them:    *)
(* the turns of a project's sessions and its requests share the directory, *)
(* the index and the branches.  A call of gitops is one step unless it     *)
(* reads HEAD and writes a branch later.                                   *)
(***************************************************************************)
EXTENDS Naturals, Sequences

CONSTANTS Sessions, Files, MaxWrites, MaxCommits, MaxPushes, MaxRequests

VARIABLES
  disk, index,   (* what each file holds, 0 where there is none              *)
  inited,        (* PlainOpen finds a repository                             *)
  commits,       (* tree and parent of each commit, its hash the position    *)
  tips, on,      (* the branches' commits, and the branch HEAD names         *)
  linked,        (* the remote origin is set                                 *)
  origin,        (* the branches of the remote                               *)
  at, base,      (* per writer: where it is, the HEAD it read                *)
  checkpoint,    (* the hash on the session's latest user message            *)
  pushing,       (* auto-pushes under way                                    *)
  requests,      (* begun so far                                             *)
  written, left, mixed, dropped, raced  (* what the properties remember      *)

treeVars == <<disk, index, written>>
branchVars == <<inited, commits, tips, on, linked, origin>>
turnVars == <<at, base, checkpoint, pushing>>
ghosts == <<left, mixed, dropped, raced>>
repoVars == <<treeVars, branchVars, turnVars, requests, ghosts>>

Branches == {"main", "side"}
Request == "request"
Writers == Sessions \cup {Request}
Hashes == 0 .. MaxCommits
Trees == [Files -> 0 .. MaxWrites]
Nothing == [f \in Files |-> 0]

TypeOK ==
  /\ disk \in Trees /\ index \in Trees /\ written \in 0 .. MaxWrites
  /\ inited \in BOOLEAN /\ linked \in BOOLEAN /\ raced \in BOOLEAN
  /\ commits \in Seq([tree : Trees, parent : Hashes]) /\ Len(commits) <= MaxCommits
  /\ tips \in [Branches -> 0 .. Len(commits)] /\ origin \in [Branches -> 0 .. Len(commits)]
  /\ on \in Branches
  /\ at \in [Writers -> {"off", "working", "staged", "committed", "pushing", "cleaning"}]
  /\ base \in [Writers -> Hashes] /\ checkpoint \in [Sessions -> Hashes]
  /\ pushing \in 0 .. MaxPushes /\ requests \in 0 .. MaxRequests
  /\ left \in [Sessions -> Trees] /\ mixed \subseteq Sessions /\ dropped \subseteq Hashes

Init ==
  /\ disk = Nothing /\ index = Nothing /\ written = 0
  /\ inited = FALSE /\ linked = FALSE /\ raced = FALSE
  /\ commits = <<>>
  /\ tips = [b \in Branches |-> 0] /\ origin = [b \in Branches |-> 0] /\ on = "main"
  /\ at = [w \in Writers |-> IF w = Request THEN "off" ELSE "working"] /\ base = [w \in Writers |-> 0]
  /\ checkpoint = [s \in Sessions |-> 0] /\ pushing = 0 /\ requests = 0
  /\ left = [s \in Sessions |-> Nothing] /\ mixed = {} /\ dropped = {}
-----------------------------------------------------------------------------
(* The commits from h back to the first, what reachableSet walks: those in every set
   that has h and the parents of its members. *)
Ancestral(S) == \A c \in S : commits[c].parent \in S \cup {0}

History(h) ==
  LET having == {S \in SUBSET (1 .. Len(commits)) : Ancestral(S) /\ h \in S \cup {0}}
  IN {c \in 1 .. Len(commits) : \A S \in having : c \in S}

HeadHash == tips[on]
Tree(h) == IF h = 0 THEN Nothing ELSE commits[h].tree
Dirty(staged) == staged # Tree(HeadHash)      (* hasStagedChanges *)
Tracked(f) == index[f] # 0 \/ Tree(HeadHash)[f] # 0
Unstaged == \E f \in Files : index[f] # 0 /\ disk[f] # index[f]

(* The sessions in the middle of a snapshot that somebody else's step meets. *)
MetBy(w) == {s \in Sessions \ {w} : at[s] \in {"staged", "committed"}}
Mix(w) == mixed' = mixed \cup MetBy(w)

Move(w, to) == at' = [at EXCEPT ![w] = to]

(* What go-git leaves of the files nobody tracks is not relied on. *)
Restored(t) ==
  {d \in Trees : \A f \in Files : d[f] = t[f] \/ (~Tracked(f) /\ t[f] = 0 /\ d[f] = disk[f])}

(* w.Reset and PullContext with MergeReset: refused over unstaged changes. *)
MergeReset(h) ==
  IF Unstaged THEN UNCHANGED <<disk, index>>
  ELSE index' = Tree(h) /\ disk' \in Restored(Tree(h))
-----------------------------------------------------------------------------
(* The tools that write in a turn. *)
WriteFile(s, f) ==
  /\ at[s] = "working" /\ written < MaxWrites
  /\ written' = written + 1
  /\ \E c \in {0, written + 1} : disk' = [disk EXCEPT ![f] = c]
  /\ Mix(s)
  /\ UNCHANGED <<requests, index, branchVars, turnVars, left, dropped, raced>>

(* stageAll, hasStagedChanges, and the parent w.Commit reads; then w.Commit. *)
StageAll(w) ==
  /\ index' = disk
  /\ base' = [base EXCEPT ![w] = IF Dirty(disk) \/ HeadHash = 0 THEN HeadHash ELSE @]

(* The branch HEAD names now gets the commit, whatever its tip was then. *)
CommitIndex(w) ==
  /\ Len(commits) < MaxCommits
  /\ commits' = Append(commits, [tree |-> index, parent |-> base[w]])
  /\ tips' = [tips EXCEPT ![on] = Len(commits) + 1]
  /\ base' = [base EXCEPT ![w] = 0]
  /\ raced' = (raced \/ base[w] # HeadHash)
  /\ Mix(w)

(* CommitIfRepo: no repository and nothing changed are not errors. *)
Snapshot(s) ==
  /\ at[s] = "working"
  /\ IF inited
       THEN /\ StageAll(s) /\ left' = [left EXCEPT ![s] = IF Dirty(disk) THEN disk ELSE @]
            /\ Move(s, IF Dirty(disk) THEN "staged" ELSE "pushing")
            /\ mixed' = (IF Dirty(disk) THEN mixed \ {s} ELSE mixed) \cup MetBy(s)
       ELSE Move(s, "pushing") /\ UNCHANGED <<requests, index, base, left, mixed>>
  /\ UNCHANGED <<requests, disk, written, branchVars, checkpoint, pushing, dropped, raced>>

SnapshotCommits(s) ==
  /\ at[s] = "staged"
  /\ CommitIndex(s) /\ Move(s, "committed")
  /\ UNCHANGED <<requests, treeVars, inited, on, linked, origin, checkpoint, pushing, left, dropped>>

(* A bug to catch: the head of before the commit. *)
StampedParent(s) == commits[HeadHash].parent

(* HeadCommit and SetMessageCheckpoint. *)
Stamped(s) == HeadHash

StampTurn(s) ==
  /\ at[s] = "committed"
  /\ checkpoint' = [checkpoint EXCEPT ![s] = Stamped(s)]
  /\ Move(s, "pushing")
  /\ UNCHANGED <<requests, treeVars, branchVars, base, pushing, ghosts>>

(* The auto-push is started, if it is on; the session is free for another turn. *)
EndTurn(s) ==
  /\ at[s] = "pushing" /\ Move(s, "working")
  /\ pushing' \in {pushing} \cup (IF linked /\ pushing < MaxPushes THEN {pushing + 1} ELSE {})
  /\ UNCHANGED <<requests, treeVars, branchVars, base, checkpoint, ghosts>>

(* A push that is not forced: a branch the remote has may only grow. *)
Forward(bs) == \A b \in bs : tips[b] = 0 \/ origin[b] \in History(tips[b]) \cup {0}

PushBranches(bs) ==
  origin' = IF linked /\ Forward(bs)
              THEN [b \in Branches |-> IF b \in bs /\ tips[b] # 0 THEN tips[b] ELSE origin[b]]
              ELSE origin

AutoPush ==
  /\ pushing > 0 /\ pushing' = pushing - 1
  /\ \/ PushBranches(Branches) \/ UNCHANGED origin
  /\ UNCHANGED <<requests, treeVars, inited, commits, tips, on, linked, at, base, checkpoint, ghosts>>
-----------------------------------------------------------------------------
(* The endpoints.  One request at a time is enough for the races with turns. *)
Idle ==
  /\ at[Request] = "off" /\ requests < MaxRequests
  /\ requests' = requests + 1
KeepsTurns == UNCHANGED <<checkpoint, pushing>>
GoesOn == at[Request] # "off" /\ UNCHANGED requests

(* InitRepo, and its commit; InitAndPush also sets a new remote, which
   hides what only the one before has, and pushes. *)
InitRepo ==
  /\ Idle /\ ~inited /\ inited' = TRUE
  /\ StageAll(Request) /\ Move(Request, "staged") /\ Mix(Request)
  /\ UNCHANGED <<disk, written, commits, tips, on, linked, origin, left, dropped, raced>>
  /\ KeepsTurns

InitAndPush ==
  /\ Idle /\ inited' = TRUE /\ linked' = TRUE
  /\ origin' = [b \in Branches |-> 0]
  /\ StageAll(Request) /\ Mix(Request)
  /\ Move(Request, IF Dirty(disk) \/ HeadHash = 0 THEN "staged" ELSE "pushing")
  /\ dropped' = dropped \cup UNION {History(origin[b]) \ History(tips[b]) : b \in Branches}
  /\ UNCHANGED <<disk, written, commits, tips, on, left, raced>> /\ KeepsTurns

(* handleGitCommit and handleGitHubPush, which then pushes. *)
CommitRequest ==
  /\ Idle /\ inited
  /\ StageAll(Request) /\ Mix(Request)
  /\ Move(Request, IF Dirty(disk) THEN "staged" ELSE "pushing")
  /\ UNCHANGED <<disk, written, branchVars, left, dropped, raced>> /\ KeepsTurns

RequestCommits ==
  /\ GoesOn /\ at[Request] = "staged" /\ CommitIndex(Request) /\ Move(Request, "pushing")
  /\ UNCHANGED <<treeVars, inited, on, linked, origin, left, dropped>> /\ KeepsTurns

RequestEnds ==
  /\ GoesOn /\ at[Request] = "pushing" /\ Move(Request, "off")
  /\ \/ PushBranches({on}) \/ UNCHANGED origin
  /\ UNCHANGED <<treeVars, inited, commits, tips, on, linked, base, ghosts>> /\ KeepsTurns

(* handleGitHubLink: the clone replaces the directory; when the rename fails the
   directory is left empty. *)
Link ==
  /\ Idle /\ Mix(Request)
  /\ \/ /\ inited' = TRUE /\ linked' = TRUE /\ on' = "main"
        /\ tips' = [b \in Branches |-> IF b = "main" THEN origin[b] ELSE 0]
        /\ disk' = Tree(origin["main"]) /\ index' = disk'
        /\ UNCHANGED origin
     \/ /\ inited' = FALSE /\ linked' = FALSE /\ on' = "main"
        /\ tips' = [b \in Branches |-> 0]
        /\ disk' = Nothing /\ index' = Nothing /\ UNCHANGED origin
  /\ dropped' = dropped \cup UNION {History(tips[b]) : b \in Branches}
  /\ UNCHANGED <<written, commits, at, base, left, raced>> /\ KeepsTurns

(* CreateBranch moves HEAD before the reset that unstaged changes refuse. *)
CreateBranch ==
  /\ Idle /\ inited /\ HeadHash # 0 /\ tips["side"] = 0
  /\ tips' = [tips EXCEPT !["side"] = HeadHash] /\ on' = "side"
  /\ MergeReset(HeadHash) /\ Mix(Request)
  /\ UNCHANGED <<written, inited, commits, linked, origin, at, base, left, dropped, raced>>
  /\ KeepsTurns

(* CheckoutBranch with Keep: go-git moves HEAD and leaves files and index. *)
CheckoutBranch(b) ==
  /\ Idle /\ inited /\ tips[b] # 0 /\ b # on
  /\ on' = b /\ Mix(Request)
  /\ UNCHANGED <<treeVars, inited, commits, tips, linked, origin, at, base, left, dropped, raced>>
  /\ KeepsTurns

(* A hard reset moves the branch; what only it led to is dropped. *)
HardReset(h) ==
  /\ tips' = [tips EXCEPT ![on] = h]
  /\ index' = Tree(h) /\ disk' \in Restored(Tree(h))
  /\ Mix(Request)

RevertTo(h) ==
  /\ Idle /\ inited /\ HardReset(h)
  /\ dropped' = dropped \cup (History(HeadHash) \ History(h))
  /\ UNCHANGED <<written, inited, commits, on, linked, origin, at, base, left, raced>>
  /\ KeepsTurns

(* DiscardFile: an untracked file goes, another is HEAD's again. *)
DiscardFile(f) ==
  /\ Idle /\ inited /\ Mix(Request)
  /\ IF ~Tracked(f)
       THEN disk' = [disk EXCEPT ![f] = 0] /\ UNCHANGED index
       ELSE /\ disk' = IF Tree(HeadHash)[f] # 0 THEN [disk EXCEPT ![f] = Tree(HeadHash)[f]] ELSE disk
            /\ index' = [index EXCEPT ![f] = disk'[f]]
  /\ UNCHANGED <<written, branchVars, at, base, left, dropped, raced>> /\ KeepsTurns

(* DiscardAll reads HEAD, resets to what it read, and removes the untracked. *)
DiscardAll ==
  /\ Idle /\ inited /\ HeadHash # 0
  /\ base' = [base EXCEPT ![Request] = HeadHash] /\ Move(Request, "working")
  /\ UNCHANGED <<treeVars, branchVars, ghosts>> /\ KeepsTurns

DiscardResets ==
  /\ GoesOn /\ at[Request] = "working"
  /\ HardReset(base[Request]) /\ Move(Request, "cleaning")
  /\ raced' = (raced \/ base[Request] # HeadHash) /\ base' = [base EXCEPT ![Request] = 0]
  /\ UNCHANGED <<written, inited, commits, on, linked, origin, left, dropped>> /\ KeepsTurns

DiscardCleans ==
  /\ GoesOn /\ at[Request] = "cleaning" /\ Move(Request, "off")
  /\ disk' = [f \in Files |-> IF Tracked(f) THEN disk[f] ELSE 0]
  /\ Mix(Request)
  /\ UNCHANGED <<index, written, branchVars, base, left, dropped, raced>> /\ KeepsTurns

Stage(fs) ==
  /\ Idle /\ inited /\ Mix(Request)
  /\ index' = [f \in Files |-> IF f \in fs THEN disk[f] ELSE index[f]]
  /\ UNCHANGED <<disk, written, branchVars, at, base, left, dropped, raced>> /\ KeepsTurns

(* Pull moves the branch forward, then resets unless a change is unstaged. *)
Pull ==
  /\ Idle /\ inited /\ linked /\ origin[on] \notin History(HeadHash) \cup {0}
  /\ HeadHash \in History(origin[on]) \cup {0}
  /\ tips' = [tips EXCEPT ![on] = origin[on]]
  /\ MergeReset(origin[on]) /\ Mix(Request)
  /\ UNCHANGED <<written, inited, commits, on, linked, origin, at, base, left, dropped, raced>>
  /\ KeepsTurns

(* Somebody else pushes to the remote. *)
OthersPush ==
  /\ linked /\ Len(commits) < MaxCommits /\ origin["main"] # 0
  /\ commits' = Append(commits, [tree |-> Nothing, parent |-> origin["main"]])
  /\ origin' = [origin EXCEPT !["main"] = Len(commits) + 1]
  /\ UNCHANGED <<requests, treeVars, inited, tips, on, linked, turnVars, ghosts>>

Requests ==
  \/ InitRepo \/ InitAndPush \/ CommitRequest \/ RequestCommits \/ RequestEnds
  \/ Link \/ CreateBranch \/ Pull
  \/ DiscardAll \/ DiscardResets \/ DiscardCleans
  \/ \E b \in Branches : CheckoutBranch(b)
  \/ \E h \in 1 .. Len(commits) : RevertTo(h)
  \/ \E f \in Files : DiscardFile(f)
  \/ \E fs \in SUBSET Files \ {{}} : Stage(fs)

Next ==
  \/ \E s \in Sessions :
       \/ Snapshot(s) \/ SnapshotCommits(s) \/ StampTurn(s) \/ EndTurn(s)
       \/ \E f \in Files : WriteFile(s, f)
  \/ AutoPush \/ OthersPush \/ Requests

Spec == Init /\ [][Next]_repoVars
-----------------------------------------------------------------------------
(* CommitIfRepo and HeadCommit: the revision a turn's message is linked to holds
   the files as the turn left them, unless another session or a request came in
   between the staging and the stamp. *)
CheckpointHolds ==
  \A s \in Sessions :
    checkpoint[s] # 0 /\ s \notin mixed /\ at[s] \notin {"staged", "committed"}
      => left[s] = Tree(checkpoint[s])

(* RevertTo, DiscardAll, Push: a commit leaves every branch only by a revert or a
   link, unless two writers moved a branch from the HEAD they read before. *)
CommitsKept ==
  raced \/ \A h \in 1 .. Len(commits) :
    \/ h \in dropped
    \/ \E b \in Branches : h \in History(tips[b]) \cup History(origin[b])
=============================================================================
