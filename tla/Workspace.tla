------------------------------ MODULE Workspace ------------------------------
(***************************************************************************)
(* The tools that change a project (internal/agent/tools.go): files, the   *)
(* task list and commands, with the permission a command or an MCP tool    *)
(* waits for (permRegistry of handlers_mcp.go).  Calls run beside each     *)
(* other: the turns of a project's sessions, and the calls of one round    *)
(* that the sidecar makes at once.                                         *)
(***************************************************************************)
EXTENDS Naturals, FiniteSets

CONSTANTS
  Calls,      (* tool calls that may be under way at once                   *)
  Paths,
  MaxMarks    (* bound: texts, lists and requests ever made                 *)

VARIABLES
  doing,      (* what each call is in the middle of                         *)
  files,      (* the texts each file holds, for the files there are         *)
  todos, todosShown,       (* the stored list, and the one last sent         *)
  mode, waiting, answers,  (* the setting, permRegistry, a request's channel *)
  alive,      (* processes of the call's command                            *)
  next,       (* the next mark                                              *)
  kept, granted, crossed  (* what the properties remember           *)

dataVars == <<files, todos, todosShown>>
permVars == <<mode, waiting, answers>>
toolVars == <<doing, dataVars, permVars, alive, next, kept, granted, crossed>>

Marks == 1 .. MaxMarks
Free == [at |-> "free"]

(* The shell, a child of its group, one of the group that ignores SIGTERM and let
   go of the output, and one that left the group with the output open. *)
Processes == {"shell", "child", "deaf", "escaped"}
Group == Processes \ {"escaped"}
HoldOutput == {"shell", "child", "escaped"}

TypeOK ==
  /\ \A c \in Calls :
       doing[c].at \in {"free", "edit", "todos", "asked", "allowed",
                        "running", "stopping", "killed", "ended"}
  /\ DOMAIN files \subseteq Paths /\ \A p \in DOMAIN files : files[p] \subseteq Marks
  /\ mode \in {"ask", "auto"} /\ waiting \subseteq Marks
  /\ DOMAIN answers \subseteq Marks /\ waiting \cap DOMAIN answers = {}
  /\ alive \in [Calls -> SUBSET Processes]
  /\ next \in 1 .. MaxMarks + 1

Init ==
  /\ doing = [c \in Calls |-> Free]
  /\ files = <<>> /\ todos = 0 /\ todosShown = 0
  /\ mode \in {"ask", "auto"} /\ waiting = {} /\ answers = <<>>
  /\ alive = [c \in Calls |-> {}] /\ next = 1
  /\ kept = {} /\ granted = {} /\ crossed = {}
-----------------------------------------------------------------------------
(* execute: a call that is disabled, or changes something in a planning turn, is
   refused, which is a call that never begins. *)
Begin(c) == doing[c] = Free /\ next \in Marks
Step(c, to) == doing' = [doing EXCEPT ![c] = to]
Mark == next' = next + 1
With(f, x, v) == [y \in DOMAIN f \cup {x} |-> IF y = x THEN v ELSE f[y]]

KeptAt(p) == {k \in kept : k.path = p}

(* editFile reads the file, and writes what it read with its replacement. *)
EditReads(c, p) ==
  /\ Begin(c) /\ p \in DOMAIN files
  /\ Step(c, [at |-> "edit", path |-> p, read |-> files[p], mark |-> next]) /\ Mark
  /\ UNCHANGED <<dataVars, permVars, alive, kept, granted, crossed>>

(* A bug to catch: an edit keeps nothing of what it read. *)
EditedFromNothing(c) == {doing[c].mark}

Edited(c) == doing[c].read \cup {doing[c].mark}

EditWrites(c) ==
  /\ doing[c].at = "edit"
  /\ LET p == doing[c].path IN
       /\ files' = With(files, p, Edited(c))
       /\ kept' = kept \cup {[path |-> p, mark |-> doing[c].mark]}
       /\ crossed' = IF p \in DOMAIN files /\ files[p] = doing[c].read THEN crossed
                     ELSE crossed \cup {p}
  /\ Step(c, Free)
  /\ UNCHANGED <<todos, todosShown, permVars, alive, next, granted>>

WriteFile(c, p) ==
  /\ Begin(c) /\ Mark
  /\ files' = With(files, p, {next})
  /\ kept' = (kept \ KeptAt(p)) \cup {[path |-> p, mark |-> next]}
  /\ UNCHANGED <<doing, todos, todosShown, permVars, alive, granted, crossed>>

Without(p) == [q \in DOMAIN files \ {p} |-> files[q]]

DeleteFile(c, p) ==
  /\ doing[c] = Free /\ p \in DOMAIN files
  /\ files' = Without(p) /\ kept' = kept \ KeptAt(p)
  /\ UNCHANGED <<doing, todos, todosShown, permVars, alive, next, granted, crossed>>

(* moveFile: what the destination held is lost. *)
MoveFile(c, p, q) ==
  /\ doing[c] = Free /\ p \in DOMAIN files /\ p # q
  /\ files' = With(Without(p), q, files[p])
  /\ kept' = (kept \ (KeptAt(p) \cup KeptAt(q))) \cup {[k EXCEPT !.path = q] : k \in KeptAt(p)}
  /\ crossed' = IF p \in crossed THEN crossed \cup {q} ELSE crossed
  /\ UNCHANGED <<doing, todos, todosShown, permVars, alive, next, granted>>
-----------------------------------------------------------------------------
(* setTodos replaces the list in the store, then tells the client. *)
SetTodos(c) ==
  /\ Begin(c) /\ Mark
  /\ todos' = next /\ Step(c, [at |-> "todos", list |-> next])
  /\ crossed' = IF \E d \in Calls : doing[d].at = "todos" THEN crossed \cup {"todos"} ELSE crossed
  /\ UNCHANGED <<files, todosShown, permVars, alive, kept, granted>>

TellTodos(c) ==
  /\ doing[c].at = "todos"
  /\ todosShown' = doing[c].list /\ Step(c, Free)
  /\ UNCHANGED <<files, todos, permVars, alive, next, kept, granted, crossed>>
-----------------------------------------------------------------------------
(* turnPerm.Request: with "ask" the user decides, else there is nothing to decide. *)
AskPermission(c) ==
  /\ Begin(c) /\ Mark
  /\ IF mode = "ask"
       THEN waiting' = waiting \cup {next} /\ UNCHANGED granted
       ELSE granted' = granted \cup {next} /\ UNCHANGED waiting
  /\ Step(c, [at |-> IF mode = "ask" THEN "asked" ELSE "allowed", id |-> next])
  /\ UNCHANGED <<dataVars, mode, answers, alive, kept, crossed>>

(* permRegistry.resolve: the first answer takes the request out. *)
Answerable(id) == id \in waiting

Answer(id, allow) ==
  /\ Answerable(id)
  /\ waiting' = waiting \ {id}
  /\ answers' = With(answers, id, allow)
  /\ granted' = IF allow THEN granted \cup {id} ELSE granted
  /\ UNCHANGED <<doing, dataVars, mode, alive, next, kept, crossed>>

PermissionReturns(c) ==
  /\ doing[c].at = "asked" /\ doing[c].id \in DOMAIN answers
  /\ Step(c, IF answers[doing[c].id] THEN [doing[c] EXCEPT !.at = "allowed"] ELSE Free)
  /\ UNCHANGED <<dataVars, permVars, alive, next, kept, granted, crossed>>

(* Two minutes, or the turn's end: the request stays registered. *)
PermissionGivesUp(c) ==
  /\ doing[c].at = "asked" /\ Step(c, Free)
  /\ UNCHANGED <<dataVars, permVars, alive, next, kept, granted, crossed>>

SetMode ==
  /\ mode' = IF mode = "ask" THEN "auto" ELSE "ask"
  /\ UNCHANGED <<doing, dataVars, waiting, answers, alive, next, kept, granted, crossed>>

(* runCommand starts the shell in a group of its own, and waits. *)
StartCommand(c) ==
  /\ doing[c].at = "allowed"
  /\ \E others \in SUBSET {"child", "deaf", "escaped"} :
       alive' = [alive EXCEPT ![c] = {"shell"} \cup others]
  /\ Step(c, [doing[c] EXCEPT !.at = "running"])
  /\ UNCHANGED <<dataVars, permVars, next, kept, granted, crossed>>

(* mcpCall hands the call to the server instead. *)
CallServer(c) ==
  /\ doing[c].at = "allowed" /\ Step(c, Free)
  /\ UNCHANGED <<dataVars, permVars, alive, next, kept, granted, crossed>>

ProcessEnds(c, p) ==
  /\ p \in alive[c]
  /\ alive' = [alive EXCEPT ![c] = @ \ {p}]
  /\ UNCHANGED <<doing, dataVars, permVars, next, kept, granted, crossed>>

(* cmd.Wait: the shell has ended, and nobody holds the output open. *)
WaitReturns(c) == alive[c] \cap HoldOutput = {}

CommandEnds(c) ==
  /\ doing[c].at \in {"running", "stopping", "killed"} /\ WaitReturns(c)
  /\ Step(c, IF doing[c].at = "running" THEN Free ELSE [at |-> "ended"])
  /\ UNCHANGED <<dataVars, permVars, alive, next, kept, granted, crossed>>

(* The turn is stopped: SIGTERM for the group, which takes who it takes. *)
StopCommand(c) ==
  /\ doing[c].at = "running"
  /\ \E dying \in SUBSET (Group \ {"deaf"}) : alive' = [alive EXCEPT ![c] = @ \ dying]
  /\ Step(c, [doing[c] EXCEPT !.at = "stopping"])
  /\ UNCHANGED <<dataVars, permVars, next, kept, granted, crossed>>

(* SIGKILL: five seconds after that, or when the command's time is over. *)
KillCommand(c) ==
  /\ doing[c].at \in {"running", "stopping"}
  /\ alive' = [alive EXCEPT ![c] = @ \ Group]
  /\ Step(c, [doing[c] EXCEPT !.at = "killed"])
  /\ UNCHANGED <<dataVars, permVars, next, kept, granted, crossed>>

Return(c) ==
  /\ doing[c].at = "ended" /\ Step(c, Free) /\ alive' = [alive EXCEPT ![c] = {}]
  /\ UNCHANGED <<dataVars, permVars, next, kept, granted, crossed>>

FileCalls(c) ==
  \E p \in Paths : \/ EditReads(c, p) \/ WriteFile(c, p) \/ DeleteFile(c, p)
                   \/ \E q \in Paths : MoveFile(c, p, q)

Next ==
  \/ SetMode
  \/ \E id \in waiting, allow \in BOOLEAN : Answer(id, allow)
  \/ \E c \in Calls :
       \/ FileCalls(c) \/ EditWrites(c)
       \/ SetTodos(c) \/ TellTodos(c)
       \/ AskPermission(c) \/ PermissionReturns(c) \/ PermissionGivesUp(c)
       \/ StartCommand(c) \/ CallServer(c) \/ CommandEnds(c) \/ StopCommand(c)
       \/ KillCommand(c) \/ Return(c)
       \/ \E p \in Processes : ProcessEnds(c, p)

Spec == Init /\ [][Next]_toolVars
-----------------------------------------------------------------------------
(* editFile: a replacement that was answered ok is in the file until the file is
   written, deleted or moved over, unless two calls met in the file. *)
EditsKept ==
  \A k \in kept : k.path \notin crossed =>
    k.path \in DOMAIN files /\ k.mark \in files[k.path]

(* setTodos: the list on the screen is the stored one, unless two lists met. *)
TodosShown ==
  "todos" \in crossed \/ todos = todosShown \/ \E c \in Calls : doing[c].at = "todos"

(* turnPerm.Request: what runs in "ask" mode was allowed by an answer to its own
   request, whatever answers came late, twice, or to others. *)
AllowedFirst ==
  \A c \in Calls : doing[c].at \in {"allowed", "running", "stopping"} => doing[c].id \in granted

(* "kill the whole process group so grandchildren don't outlive the turn": after a
   stop or a time-out neither the shell nor a child that writes to the tool's output
   is left.  One that ignores SIGTERM and closed the output may be. *)
GroupGone ==
  \A c \in Calls : doing[c].at = "ended" => alive[c] \cap {"shell", "child"} = {}
=============================================================================
