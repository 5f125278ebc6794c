------------------------------ MODULE Migration ------------------------------
(***************************************************************************)
(* What a start does to the database it finds (migrate of                  *)
(* internal/store/store.go): statement by statement, each committed by     *)
(* itself, and the process may be stopped between any two.  Which earlier  *)
(* build left the database is not known: every combination of what migrate *)
(* looks for is tried.                                                     *)
(***************************************************************************)
EXTENDS Naturals, FiniteSets

CONSTANTS
  MaxUsers, MaxNumber,  (* bounds: accounts, numbers of sessions            *)
  Texts                 (* messages whose text may need scrubbing           *)

VARIABLES
  pc, step,             (* the statement that is next; of a rebuild, which  *)
  table, spare,         (* a table of Rebuilt, and its _v2                  *)
  columns,
  password, anonymous,  (* the one stored password; a login of nobody       *)
  users, ownerless,     (* accounts; a project has no owner                 *)
  names, seq,           (* numbers of the project's sessions; session_seq   *)
  dirty,
  had, secured, stopped, gap, clash  (* what the properties remember        *)

migrationVars == <<pc, step, table, spare, columns, password, anonymous, users, ownerless, names,
                   seq, dirty, had, secured, stopped, gap, clash>>
tableVars == <<table, spare>>
userVars == <<password, anonymous, users, ownerless>>
nameVars == <<names, seq, gap, clash>>

Rebuilt == {"compaction_snapshots", "pending_asks"}
Missing == [shape |-> "none", rows |-> {}]

(* Columns by the stage that adds them. *)
First == {"messages.session_id"}
OwnerColumns == {"sessions.user_id", "projects.owner_id"}
Later == {"memories.embedding", "projects.session_seq"}
Final == {"projects.ephemeral"}
Columns == First \cup OwnerColumns \cup Later \cup Final

Steps == {"look", "copy", "drop", "rename"}
Statements ==
  {"tables", "index", "shapes", "messages", "owners", "logins", "count", "admin", "forget",
   "claim", "columns", "seed", "scrub", "last"} \cup Rebuilt

TypeOK ==
  /\ pc \in Statements \cup {"down", "failed", "up", "used"} /\ step \in Steps
  /\ \A t \in Rebuilt : {table[t], spare[t]} \subseteq
       [shape : {"none", "old", "new"}, rows : SUBSET {"before", "since"}]
  /\ columns \subseteq Columns
  /\ users \in 0 .. MaxUsers /\ names \subseteq 1 .. MaxNumber /\ seq \in 0 .. MaxNumber
  /\ dirty \subseteq Texts /\ {stopped, had} \subseteq SUBSET Rebuilt
  /\ {password, anonymous, ownerless, secured, gap, clash} \subseteq BOOLEAN

Contiguous(s) == \A n \in s : 1 .. n \subseteq s

(* The database of a new installation, and one an earlier build may have left. *)
Fresh ==
  /\ pc = "down" /\ step = "look" /\ spare = [t \in Rebuilt |-> Missing]
  /\ table = [t \in Rebuilt |-> Missing] /\ had = {} /\ columns = Columns
  /\ users = 0 /\ password = FALSE /\ anonymous = FALSE /\ ownerless = FALSE
  /\ names = {} /\ seq = 0 /\ dirty = {}
  /\ secured = FALSE /\ stopped = {} /\ gap = FALSE /\ clash = FALSE

Left ==
  /\ pc = "down" /\ step = "look" /\ spare = [t \in Rebuilt |-> Missing]
  /\ table \in [Rebuilt -> {Missing, [shape |-> "old", rows |-> {"before"}]}]
  /\ had = {t \in Rebuilt : table[t] # Missing}
  /\ columns \in {Columns \ late : late \in
       {{}, Final, Later \cup Final, OwnerColumns \cup Later \cup Final, Columns}}
  /\ users \in IF OwnerColumns \subseteq columns THEN {0, 1} ELSE {0}
  /\ password \in IF users = 0 THEN BOOLEAN ELSE {FALSE}
  /\ anonymous = (users = 0) /\ ownerless = (users = 0)
  /\ names \in IF Later \subseteq columns THEN {{}} ELSE SUBSET (1 .. MaxNumber)
  /\ seq = 0 /\ dirty \in SUBSET Texts
  /\ secured = (password \/ users > 0) /\ stopped = {}
  /\ gap = ~Contiguous(names) /\ clash = FALSE
Init == Fresh \/ Left
-----------------------------------------------------------------------------
At(statement, then) == pc = statement /\ pc' = then

(* Open *)
Start ==
  /\ pc \in {"down", "failed"} /\ pc' = "tables"
  /\ UNCHANGED <<step, tableVars, columns, userVars, nameVars, dirty, had, secured, stopped>>

(* CREATE TABLE IF NOT EXISTS leaves a table that is there as it is, and the index on
   one of its columns comes before the column. *)
MakeTables ==
  /\ At("tables", "index")
  /\ UNCHANGED <<step, tableVars, columns, userVars, nameVars, dirty, had, secured, stopped>>

MakeIndex ==
  /\ pc = "index" /\ pc' = IF First \subseteq columns THEN "shapes" ELSE "failed"
  /\ UNCHANGED <<step, tableVars, columns, userVars, nameVars, dirty, had, secured, stopped>>

MakeShapes ==
  /\ At("shapes", "messages")
  /\ table' = [t \in Rebuilt |-> IF table[t] = Missing THEN [Missing EXCEPT !.shape = "new"]
                                 ELSE table[t]]
  /\ UNCHANGED <<step, spare, columns, userVars, nameVars, dirty, had, secured, stopped>>

(* migrateAddColumns: those that are missing, in any order, one by one. *)
Adds(stage) ==
  CASE stage = "messages" -> First
    [] stage = "owners"   -> OwnerColumns
    [] stage = "columns"  -> Later
    [] stage = "last"     -> Final
    [] OTHER              -> {}

AddColumn(c) ==
  /\ c \in Adds(pc) \ columns
  /\ columns' = columns \cup {c}
  /\ UNCHANGED <<step, pc, tableVars, userVars, nameVars, dirty, had, secured, stopped>>

AfterColumns(stage) ==
  CASE stage = "messages" -> "compaction_snapshots"
    [] stage = "owners"   -> "logins"
    [] stage = "columns"  -> "seed"
    [] stage = "last"     -> "up"

ColumnsThere ==
  /\ Adds(pc) # {} /\ Adds(pc) \subseteq columns
  /\ pc' = AfterColumns(pc)
  /\ UNCHANGED <<step, tableVars, columns, userVars, nameVars, dirty, had, secured, stopped>>
-----------------------------------------------------------------------------
(* rebuildTableForSessions: four statements, and no transaction. *)
AfterRebuild(t) == IF t = "compaction_snapshots" THEN "pending_asks" ELSE "owners"

RebuildLooks(t) ==
  /\ pc = t /\ step = "look"
  /\ \/ /\ table[t].shape = "new"
        /\ pc' = AfterRebuild(t) /\ UNCHANGED <<step, spare>>
     \/ /\ table[t].shape = "old" /\ spare[t] # Missing
        /\ pc' = "failed" /\ UNCHANGED <<step, spare>>
     \/ /\ table[t].shape = "old" /\ spare[t] = Missing
        /\ spare' = [spare EXCEPT ![t] = [Missing EXCEPT !.shape = "new"]]
        /\ step' = "copy" /\ UNCHANGED pc
  /\ UNCHANGED <<table, columns, userVars, nameVars, dirty, had, secured, stopped>>

RebuildCopies(t) ==
  /\ pc = t /\ step = "copy" /\ step' = "drop"
  /\ spare' = [spare EXCEPT ![t].rows = table[t].rows]
  /\ UNCHANGED <<pc, table, columns, userVars, nameVars, dirty, had, secured, stopped>>

RebuildDrops(t) ==
  /\ pc = t /\ step = "drop" /\ step' = "rename"
  /\ table' = [table EXCEPT ![t] = Missing]
  /\ UNCHANGED <<pc, spare, columns, userVars, nameVars, dirty, had, secured, stopped>>

RebuildRenames(t) ==
  /\ pc = t /\ step = "rename" /\ step' = "look" /\ pc' = AfterRebuild(t)
  /\ table' = [table EXCEPT ![t] = spare[t]] /\ spare' = [spare EXCEPT ![t] = Missing]
  /\ UNCHANGED <<columns, userVars, nameVars, dirty, had, secured, stopped>>
-----------------------------------------------------------------------------
(* migrateLegacyUsers *)
DropLogins ==
  /\ At("logins", "count") /\ anonymous' = FALSE
  /\ UNCHANGED <<step, tableVars, columns, password, users, ownerless, nameVars, dirty, had, secured, stopped>>

Count ==
  /\ pc = "count"
  /\ pc' = IF users > 0 THEN "claim" ELSE IF password THEN "admin" ELSE "columns"
  /\ UNCHANGED <<step, tableVars, columns, userVars, nameVars, dirty, had, secured, stopped>>

MakeAdmin ==
  /\ At("admin", "forget") /\ users' = users + 1
  /\ UNCHANGED <<step, tableVars, columns, password, anonymous, ownerless, nameVars, dirty, had, secured, stopped>>

ForgetPassword ==
  /\ At("forget", "claim") /\ password' = FALSE
  /\ UNCHANGED <<step, tableVars, columns, anonymous, users, ownerless, nameVars, dirty, had, secured, stopped>>

Claim ==
  /\ At("claim", "columns") /\ ownerless' = FALSE
  /\ UNCHANGED <<step, tableVars, columns, password, anonymous, users, nameVars, dirty, had, secured, stopped>>
-----------------------------------------------------------------------------
(* A project that never counted its sessions counts them now. *)
SeedSeq ==
  /\ At("seed", "scrub")
  /\ seq' = IF seq = 0 THEN Cardinality(names) ELSE seq
  /\ UNCHANGED <<step, tableVars, columns, userVars, names, gap, clash, dirty, had, secured, stopped>>

(* markLegacyAgentRows and scrubStoredMessages, row by row. *)
Scrub(m) ==
  /\ pc = "scrub" /\ m \in dirty /\ dirty' = dirty \ {m}
  /\ UNCHANGED <<step, pc, tableVars, columns, userVars, nameVars, had, secured, stopped>>

Scrubbed ==
  /\ At("scrub", "last") /\ dirty = {}
  /\ UNCHANGED <<step, tableVars, columns, userVars, nameVars, dirty, had, secured, stopped>>
-----------------------------------------------------------------------------
(* The server is used: CreateChatSession, sessions that are deleted, summaries and
   questions that are stored, a first account, projects made with auth disabled. *)
Uses == pc \in {"up", "used"} /\ pc' = "used"

NewSession ==
  /\ Uses /\ seq < MaxNumber
  /\ seq' = seq + 1 /\ names' = names \cup {seq'}
  /\ clash' = (clash \/ seq' \in names)
  /\ UNCHANGED <<step, tableVars, columns, userVars, gap, dirty, had, secured, stopped>>

DeleteSession(n) ==
  /\ Uses /\ names' = names \ {n}
  /\ UNCHANGED <<step, tableVars, columns, userVars, seq, gap, clash, dirty, had, secured, stopped>>

StoresRow(t) ==
  /\ Uses /\ table' = [table EXCEPT ![t].rows = @ \cup {"since"}]
  /\ UNCHANGED <<step, spare, columns, userVars, nameVars, dirty, had, secured, stopped>>

NewAccount ==
  /\ Uses /\ users < MaxUsers /\ users' = users + 1 /\ secured' = TRUE
  /\ UNCHANGED <<step, tableVars, columns, password, anonymous, ownerless, nameVars, dirty, had, stopped>>

NewOwnerless ==
  /\ Uses /\ ownerless' = TRUE
  /\ UNCHANGED <<step, tableVars, columns, password, anonymous, users, nameVars, dirty, had, secured, stopped>>

(* The process ends, wherever it is. *)
Stop ==
  /\ pc \notin {"down", "failed"} /\ pc' = "down" /\ step' = "look"
  /\ stopped' = IF step = "look" THEN stopped ELSE stopped \cup {pc}
  /\ UNCHANGED <<tableVars, columns, userVars, nameVars, dirty, had, secured>>

Next ==
  \/ Start \/ MakeTables \/ MakeIndex \/ MakeShapes \/ ColumnsThere \/ Stop
  \/ \E c \in Columns : AddColumn(c)
  \/ \E t \in Rebuilt : RebuildLooks(t) \/ RebuildCopies(t) \/ RebuildDrops(t) \/ RebuildRenames(t)
  \/ DropLogins \/ Count \/ MakeAdmin \/ ForgetPassword \/ Claim
  \/ SeedSeq \/ Scrubbed \/ \E m \in Texts : Scrub(m)
  \/ NewSession \/ NewAccount \/ NewOwnerless
  \/ \E n \in names : DeleteSession(n)
  \/ \E t \in Rebuilt : StoresRow(t)

Spec == Init /\ [][Next]_migrationVars
-----------------------------------------------------------------------------
(* migrate, "Idempotent": over stops at any statement, a database that opened has every
   column, no text to scrub, no login of nobody, an account if it ever had a password
   or one, and no project without an owner if it has an account. *)
OpenedWhole ==
  pc = "up" =>
    /\ columns = Columns /\ dirty = {} /\ ~anonymous
    /\ (secured => users > 0) /\ (users > 0 => ~ownerless)
    /\ \A t \in Rebuilt : table[t].shape = "new"

(* rebuildTableForSessions: the rows from before are there when a database is open,
   unless a start was stopped between its statements. *)
RowsCarried ==
  pc \in {"up", "used"} => \A t \in had \ stopped : "before" \in table[t].rows

(* "Columns added after their tables first shipped, for existing databases", and
   "Idempotent": a start opens the database.  Not so of one whose messages have no
   session_id, nor after a rebuild that was stopped. *)
StartsAgain == pc # "failed"

FailsOnlySo == pc = "failed" => ~(First \subseteq columns) \/ stopped # {}

(* "new names never collide with existing Session N": not so of a project from before
   the counter that had deleted a session. *)
NamesFresh == clash => gap
=============================================================================
