------------------------------- MODULE Terminal -------------------------------
(***************************************************************************)
(* Terminals of a project (internal/terminal): each socket has a shell of  *)
(* its own, registered by project; deleting the project and stopping the   *)
(* server kill the registered ones.                                        *)
(***************************************************************************)
EXTENDS Naturals, FiniteSets

CONSTANTS
  Sockets      (* bound: terminals ever opened                              *)

VARIABLES
  project,     (* the project is there, or being deleted, or gone           *)
  socket,      (* where each socket's handler is                            *)
  shell,       (* sockets whose shell runs                                  *)
  registered,  (* Manager.sessions of the project                           *)
  late         (* sockets that registered after KillProject                 *)

terminalVars == <<project, socket, shell, registered, late>>

TypeOK ==
  /\ project \in {"there", "killed", "gone"}
  /\ socket \in [Sockets -> {"none", "upgraded", "started", "open", "over", "closed"}]
  /\ shell \subseteq Sockets /\ registered \subseteq Sockets /\ late \subseteq Sockets

Init ==
  /\ project = "there"
  /\ socket = [s \in Sockets |-> "none"]
  /\ shell = {} /\ registered = {} /\ late = {}
-----------------------------------------------------------------------------
Moves(s, to) == socket' = [socket EXCEPT ![s] = to]

(* projectOr404, and the upgrade *)
Open(s) ==
  /\ socket[s] = "none" /\ project # "gone"
  /\ Moves(s, "upgraded")
  /\ UNCHANGED <<project, shell, registered, late>>

(* A shell that cannot start closes the socket with the reason. *)
Start(s) ==
  /\ socket[s] = "upgraded"
  /\ \/ Moves(s, "started") /\ shell' = shell \cup {s}
     \/ Moves(s, "closed") /\ UNCHANGED shell
  /\ UNCHANGED <<project, registered, late>>

Registers(s) ==
  /\ socket[s] = "started" /\ Moves(s, "open")
  /\ registered' = registered \cup {s}
  /\ late' = IF project = "there" THEN late ELSE late \cup {s}
  /\ UNCHANGED <<project, shell>>

(* The shell exits; its socket stays until the other side closes it. *)
Exits(s) ==
  /\ s \in shell /\ shell' = shell \ {s}
  /\ UNCHANGED <<project, socket, registered, late>>

(* The socket is closed, or was silent for a minute: the deferred kill... *)
Ends(s) ==
  /\ socket[s] = "open" /\ Moves(s, "over")
  /\ shell' = shell \ {s}
  /\ UNCHANGED <<project, registered, late>>

(* ... and then the entry goes. *)
Unregisters(s) ==
  /\ socket[s] = "over" /\ Moves(s, "closed")
  /\ registered' = registered \ {s}
  /\ UNCHANGED <<project, shell, late>>

(* handleDeleteProject: KillProject, and the row is deleted after that. *)
KillProject ==
  /\ project = "there" /\ project' = "killed"
  /\ shell' = shell \ registered /\ registered' = {}
  /\ UNCHANGED <<socket, late>>

DeleteProject ==
  /\ project = "killed" /\ project' = "gone"
  /\ UNCHANGED <<socket, shell, registered, late>>

Next ==
  \/ KillProject \/ DeleteProject
  \/ \E s \in Sockets :
       Open(s) \/ Start(s) \/ Registers(s) \/ Exits(s) \/ Ends(s) \/ Unregisters(s)

Spec == Init /\ [][Next]_terminalVars
-----------------------------------------------------------------------------
(* ServeWS: "The shell is killed when the socket closes": a shell that runs has an open
   socket, and one of a deleted project belongs to a handler that was on its way. *)
ShellsHeld ==
  \A s \in shell :
    /\ socket[s] \in {"started", "open"}
    /\ socket[s] = "open" => project = "there" \/ s \in late

(* KillProject: "terminates all terminal sessions for a project".  Not so of a socket
   that registers after it. *)
NoneAfterDelete == project = "gone" => \A s \in shell : socket[s] # "open"
=============================================================================
