------------------------------- MODULE Accounts -------------------------------
(***************************************************************************)
(* Accounts, logins and who owns which project: the endpoints of           *)
(* internal/server/handlers_auth.go, handlers_users.go, handlers_oidc.go   *)
(* and handlers_projects.go over internal/auth and the store.  A request   *)
(* is checked, and acts some time after; the server may stop in between.   *)
(* An account's id stands for its name.                                    *)
(***************************************************************************)
EXTENDS Naturals, FiniteSets

CONSTANTS
  MaxUsers,  (* bound: accounts ever made                                  *)
  Projects,  (* ids of projects; each is made once                         *)
  Clients    (* bound: requests in the middle at once                      *)

VARIABLES
  config,    (* V1_PASSWORD is set, AllowSignup, OIDC is on                *)
  up,        (* the server runs                                            *)
  users, made, admins, logins,
  project,   (* each project's row: owner, and whether archived            *)
  dirs,      (* projects with a directory                                  *)
  used,      (* ids of projects ever made: each is random                  *)
  doing,     (* each client's request                                      *)
  crossed    (* two requests changed roles or deleted accounts at once     *)

accountVars == <<config, up, users, made, admins, logins, project, dirs, used, doing, crossed>>

Users == 1 .. MaxUsers
Nobody == 0
NoRow == [row |-> FALSE, owner |-> Nobody, archived |-> FALSE]
Idle == [at |-> "idle"]

TypeOK ==
  /\ config \in [password : BOOLEAN, signup : BOOLEAN, oidc : BOOLEAN]
  /\ up \in BOOLEAN /\ crossed \in BOOLEAN
  /\ made \in 0 .. MaxUsers /\ users \subseteq 1 .. made
  /\ admins \subseteq users /\ logins \subseteq 1 .. made
  /\ project \in [Projects -> [row : BOOLEAN, owner : 0 .. made, archived : BOOLEAN]]
  /\ dirs \subseteq used /\ used \subseteq Projects
  /\ \A c \in Clients : doing[c].at \in {"idle", "setup", "account", "oidc", "role", "count",
                                         "delete", "sweep", "folder", "remove"}

(* A store from before accounts, or used with auth off, may hold a project. *)
Init ==
  /\ config \in [password : BOOLEAN, signup : BOOLEAN, oidc : BOOLEAN]
  /\ up = FALSE /\ crossed = FALSE
  /\ users = {} /\ made = 0 /\ admins = {} /\ logins = {}
  /\ \E old \in {{}} \cup {{p} : p \in Projects} :
       /\ project = [p \in Projects |-> IF p \in old THEN [NoRow EXCEPT !.row = TRUE] ELSE NoRow]
       /\ dirs = old /\ used = old
  /\ doing = [c \in Clients |-> Idle]
-----------------------------------------------------------------------------
RowsOf(u) == {p \in Projects : project[p].row /\ project[p].owner = u}
Active(u) == {p \in RowsOf(u) : ~project[p].archived}

(* ClaimOwnerlessProjects *)
Claimed(u) ==
  [p \in Projects |-> IF p \in RowsOf(Nobody) THEN [project[p] EXCEPT !.owner = u] ELSE project[p]]

(* store.CreateUser: the name is new. *)
NewUser(isAdmin) ==
  /\ made < MaxUsers
  /\ made' = made + 1 /\ users' = users \cup {made'}
  /\ admins' = IF isAdmin THEN admins \cup {made'} ELSE admins

(* CreateUser with a name that is taken, or that the store cannot write. *)
NotMade == UNCHANGED <<users, made, admins, logins, project>>

Becomes(c, state) == doing' = [doing EXCEPT ![c] = state]

(* Start: migrateLegacyUsers gives projects without an owner to the first admin,
   or the oldest account; BootstrapAdmin makes an admin of the password. *)
Boot ==
  /\ ~up /\ up' = TRUE
  /\ LET heirs == IF admins # {} THEN admins ELSE users
         heir == CHOOSE u \in heirs : \A v \in heirs : u <= v
     IN IF users # {}
          THEN project' = Claimed(heir) /\ UNCHANGED <<users, made, admins>>
        ELSE IF config.password
          THEN (\/ NewUser(TRUE) /\ project' = Claimed(made')
                \/ UNCHANGED <<users, made, admins, project>>)
        ELSE UNCHANGED <<users, made, admins, project>>
  /\ UNCHANGED <<config, logins, dirs, doing, used, crossed>>

Halt ==
  /\ up /\ up' = FALSE
  /\ doing' = [c \in Clients |-> Idle]
  /\ UNCHANGED <<config, users, made, admins, logins, project, dirs, used, crossed>>

Login ==
  /\ up /\ \E u \in users : logins' = logins \cup {u}
  /\ UNCHANGED <<config, up, users, made, admins, project, dirs, doing, used, crossed>>

(* handleLogout, or SessionUser finds the login expired. *)
Logout ==
  /\ up /\ \E u \in logins : logins' = logins \ {u}
  /\ UNCHANGED <<config, up, users, made, admins, project, dirs, doing, used, crossed>>

(* SetupRequired *)
SetupChecks(c) ==
  /\ up /\ doing[c] = Idle /\ ~config.oidc /\ users = {}
  /\ Becomes(c, [at |-> "setup"])
  /\ UNCHANGED <<config, up, users, made, admins, logins, project, dirs, used, crossed>>

SetupCreates(c) ==
  /\ doing[c].at = "setup"
  /\ \/ NewUser(TRUE) /\ logins' = logins \cup {made'} /\ project' = Claimed(made')
     \/ NotMade
  /\ Becomes(c, Idle)
  /\ UNCHANGED <<config, up, dirs, used, crossed>>

(* The first account is an admin's, whoever makes it. *)
FirstIsAdmin(asked) == asked \/ users = {}

(* handleSignup, and handleCreateUser by an admin. *)
SignupChecks(c) ==
  /\ up /\ doing[c] = Idle /\ config.signup
  /\ Becomes(c, [at |-> "account", login |-> TRUE, admin |-> FirstIsAdmin(FALSE)])
  /\ UNCHANGED <<config, up, users, made, admins, logins, project, dirs, used, crossed>>

Asks(u) == up /\ u \in users \cap logins
AdminAsks(u) == Asks(u) /\ u \in admins

CreateUserChecks(c) ==
  /\ doing[c] = Idle /\ \E u \in Users : AdminAsks(u)
  /\ \E asked \in BOOLEAN :
       Becomes(c, [at |-> "account", login |-> FALSE, admin |-> FirstIsAdmin(asked)])
  /\ UNCHANGED <<config, up, users, made, admins, logins, project, dirs, used, crossed>>

AccountCreates(c) ==
  /\ doing[c].at = "account"
  /\ \/ /\ NewUser(doing[c].admin) /\ UNCHANGED project
        /\ logins' = IF doing[c].login THEN logins \cup {made'} ELSE logins
     \/ NotMade
  /\ Becomes(c, Idle)
  /\ UNCHANGED <<config, up, dirs, used, crossed>>

(* handleOIDCCallback: the account of the address, or none; the address may be
   listed as an admin's. *)
OIDCReads(c) ==
  /\ up /\ doing[c] = Idle /\ config.oidc
  /\ \E u \in users \cup {Nobody}, listed \in BOOLEAN :
       Becomes(c, [at |-> "oidc", user |-> u, listed |-> listed])
  /\ UNCHANGED <<config, up, users, made, admins, logins, project, dirs, used, crossed>>

OIDCSignsIn(c) ==
  LET u == doing[c].user IN
  /\ doing[c].at = "oidc"
  /\ \/ /\ u = Nobody /\ NewUser(doing[c].listed)
        /\ logins' = logins \cup {made'} /\ UNCHANGED project
     \/ /\ u \in users
        /\ admins' = IF doing[c].listed THEN admins \cup {u} ELSE admins
        /\ logins' = logins \cup {u} /\ UNCHANGED <<users, made, project>>
     \/ NotMade
  /\ Becomes(c, Idle)
  /\ UNCHANGED <<config, up, dirs, used, crossed>>
-----------------------------------------------------------------------------
ChangesAccounts(c) == doing[c].at \in {"role", "count", "delete"}
Crosses(c) == crossed' = (crossed \/ \E d \in Clients \ {c} : ChangesAccounts(d))

(* handleUpdateUser: the target as it is now; not away from oneself. *)
UpdateUserReads(c, me, u, to) ==
  /\ doing[c] = Idle /\ AdminAsks(me) /\ u \in users
  /\ u = me => to
  /\ Becomes(c, [at |-> IF u \in admins /\ ~to THEN "count" ELSE "role", user |-> u, to |-> to])
  /\ Crosses(c)
  /\ UNCHANGED <<config, up, users, made, admins, logins, project, dirs, used>>

(* AdminCount *)
UpdateUserCounts(c) ==
  /\ doing[c].at = "count"
  /\ Becomes(c, IF Cardinality(admins) <= 1 THEN Idle ELSE [doing[c] EXCEPT !.at = "role"])
  /\ UNCHANGED <<config, up, users, made, admins, logins, project, dirs, used, crossed>>

(* SetUserAdmin; not found when the account is gone. *)
RoleSet(u, to) ==
  IF u \notin users THEN admins ELSE IF to THEN admins \cup {u} ELSE admins \ {u}

UpdateUserSets(c) ==
  LET u == doing[c].user IN
  /\ doing[c].at = "role"
  /\ admins' = RoleSet(u, doing[c].to)
  /\ Becomes(c, Idle)
  /\ UNCHANGED <<config, up, users, made, logins, project, dirs, used, crossed>>

(* handleDeleteUser: not oneself; previews and terminals are stopped. *)
DeleteUserChecks(c, me, u) ==
  /\ doing[c] = Idle /\ AdminAsks(me) /\ u \in users \ {me}
  /\ Becomes(c, [at |-> "delete", user |-> u, dirs |-> Active(u)])
  /\ Crosses(c)
  /\ UNCHANGED <<config, up, users, made, admins, logins, project, dirs, used>>

(* store.DeleteUser: the rows of the active projects, and the account's. *)
DeleteUserRows(c) ==
  LET u == doing[c].user IN
  /\ doing[c].at = "delete"
  /\ project' = [p \in Projects |-> IF p \in Active(u) THEN NoRow ELSE project[p]]
  /\ users' = users \ {u} /\ admins' = admins \ {u}
  /\ Becomes(c, [at |-> "sweep", dirs |-> doing[c].dirs])
  /\ UNCHANGED <<config, up, made, logins, dirs, used, crossed>>

DeleteUserDirs(c) ==
  /\ doing[c].at = "sweep"
  /\ dirs' = dirs \ doing[c].dirs
  /\ Becomes(c, Idle)
  /\ UNCHANGED <<config, up, users, made, admins, logins, project, used, crossed>>

(* handleCreateProject, handleImportProject: the directory is filled, or goes. *)
CreateProjectDir(c, me, p) ==
  /\ doing[c] = Idle /\ Asks(me)
  /\ p \notin used /\ used' = used \cup {p} /\ dirs' = dirs \cup {p}
  /\ Becomes(c, [at |-> "folder", of |-> p, owner |-> me])
  /\ UNCHANGED <<config, up, users, made, admins, logins, project, crossed>>

CreateProjectRow(c) ==
  LET p == doing[c].of IN
  /\ doing[c].at = "folder"
  /\ \/ project' = [project EXCEPT ![p] = [row |-> TRUE, owner |-> doing[c].owner, archived |-> FALSE]]
        /\ UNCHANGED dirs
     \/ dirs' = dirs \ {p} /\ UNCHANGED project
  /\ Becomes(c, Idle)
  /\ UNCHANGED <<config, up, users, made, admins, logins, used, crossed>>

(* A bug to catch: the directory goes first. *)
DropDir(p) == dirs' = dirs \ {p} /\ UNCHANGED project

DropRow(p) == project' = [project EXCEPT ![p] = NoRow] /\ UNCHANGED dirs

(* handleDeleteProject: the row, then the directory. *)
DeleteProjectRow(c, me, p) ==
  /\ doing[c] = Idle /\ Asks(me) /\ p \in RowsOf(me)
  /\ DropRow(p)
  /\ Becomes(c, [at |-> "remove", of |-> p])
  /\ UNCHANGED <<config, up, users, made, admins, logins, used, crossed>>

DeleteProjectDir(c) ==
  /\ doing[c].at = "remove"
  /\ dirs' = dirs \ {doing[c].of}
  /\ Becomes(c, Idle)
  /\ UNCHANGED <<config, up, users, made, admins, logins, project, used, crossed>>

(* ArchiveExpiredEphemeralProjects, by the sweeper or a list of the projects. *)
Archive(p) ==
  /\ up /\ \E u \in users : p \in Active(u)
  /\ project' = [project EXCEPT ![p].archived = TRUE]
  /\ UNCHANGED <<config, up, users, made, admins, logins, dirs, doing, used, crossed>>

Next ==
  \/ Boot \/ Halt \/ Login \/ Logout
  \/ \E c \in Clients :
       \/ SetupChecks(c) \/ SetupCreates(c) \/ SignupChecks(c) \/ CreateUserChecks(c)
       \/ AccountCreates(c) \/ OIDCReads(c) \/ OIDCSignsIn(c)
       \/ UpdateUserCounts(c) \/ UpdateUserSets(c) \/ DeleteUserRows(c) \/ DeleteUserDirs(c)
       \/ CreateProjectRow(c) \/ DeleteProjectDir(c)
       \/ \E me \in Users :
            \/ \E u \in Users : \/ DeleteUserChecks(c, me, u)
                                \/ \E to \in BOOLEAN : UpdateUserReads(c, me, u, to)
            \/ \E p \in Projects : CreateProjectDir(c, me, p) \/ DeleteProjectRow(c, me, p)
  \/ \E p \in Projects : Archive(p)

Spec == Init /\ [][Next]_accountVars
-----------------------------------------------------------------------------
(* "the first account is always an admin" and "cannot demote the last admin"
   (handlers_auth.go, handlers_users.go): an instance without OIDC that has accounts
   has an admin, unless two requests changed accounts at once. *)
AdminRemains == users # {} /\ ~config.oidc /\ ~crossed => admins # {}

(* handleCreateProject, handleDeleteProject: a project that is listed has its
   directory, wherever the server stops. *)
ListedHasDir == \A p \in Projects : project[p].row /\ ~project[p].archived => p \in dirs

(* "DeleteUser removes a user, their user settings and their projects" (store.go). *)
NoOrphans == \A p \in Projects : project[p].row => project[p].owner \in users \cup {Nobody}
=============================================================================
