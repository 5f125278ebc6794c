------------------------------- MODULE Sessions -------------------------------
(***************************************************************************)
(* The chat sessions of one project: their rows in the store, the summary  *)
(* that a compaction leaves (internal/store/store.go, CompactProject of    *)
(* internal/agent/compaction.go), the endpoints that create, fork, delete, *)
(* rewind and compact them, and what RunChat of the built-in loop reads    *)
(* and writes of them while all of that goes on.                           *)
(*                                                                         *)
(* A row says a sequence of pieces of text.  A piece is named by the       *)
(* number that was next when it was written, and a copy keeps the name.    *)
(***************************************************************************)
EXTENDS Naturals, Sequences, FiniteSets, SequencesExt

CONSTANTS
  MaxSids,  (* bound: sessions ever made                                    *)
  MaxRuns,  (* bound: runs at once                                          *)
  Clients,  (* bound: requests of several steps at once                     *)
  MaxIds    (* bound: rows and pieces ever made                             *)

VARIABLES
  listed,    (* chat_sessions, oldest first                                 *)
  gone,      (* sessions that were deleted                                  *)
  rows,      (* messages, by id                                             *)
  nextId,
  snapshot,  (* compaction_snapshots: the last row covered, 0 without, and
                what the summary is of                                      *)
  run,       (* the run of each session                                     *)
  doing,     (* what each client's request is about to do                   *)
  said,      (* what was said in each session and never taken back          *)
  stale,     (* sessions of which a row that a summary covers has changed   *)
  halved,    (* sessions with a merge that is not over, or stopped half way *)
  stranded   (* the first session came without the rows of none             *)

sessionVars ==
  <<listed, gone, rows, nextId, snapshot, run, doing, said, stale, halved, stranded>>

Sids == 1 .. MaxSids
NoSession == 0
Idle == [at |-> "idle"]
NoSummary == [covered |-> 0, of |-> <<>>]

ToModel == {"user", "assistant", "tool"}
Row(id, s, role, says) == [id |-> id, session |-> s, role |-> role, says |-> says]

Of(s) == SelectSeq(rows, LAMBDA r : r.session = s)
Model(rs) == SelectSeq(rs, LAMBDA r : r.role \in ToModel)
UpTo(rs, id) == SelectSeq(rs, LAMBDA r : r.id <= id)
After(rs, id) == SelectSeq(rs, LAMBDA r : r.id > id)
Says(rs) == FlattenSeq([i \in DOMAIN rs |-> rs[i].says])

TypeOK ==
  /\ listed \in Seq(Sids) /\ IsInjective(listed) /\ gone \subseteq Sids \ Range(listed)
  /\ \A i \in DOMAIN rows :
       /\ rows[i].id < nextId /\ (i > 1 => rows[i - 1].id < rows[i].id)
       /\ rows[i].session \in Sids \cup {NoSession}
       /\ rows[i].role \in ToModel \cup {"error", "notice"}
       /\ Range(rows[i].says) \subseteq 1 .. nextId - 1
  /\ nextId \in 1 .. MaxIds + 3
  /\ \A s \in Sids : snapshot[s].covered < nextId /\ said[s] \subseteq 1 .. nextId - 1
  /\ \A s \in Sids :
       run[s].at \in {"idle", "begun", "listing", "windowing", "running", "merging", "cutting"}
  /\ \A c \in Clients :
       doing[c].at \in {"idle", "default", "claim", "fork", "delete", "drop", "compact"}
  /\ stale \subseteq Sids /\ halved \subseteq Sids /\ stranded \in BOOLEAN

(* A project from before sessions may have a row of none. *)
Init ==
  /\ listed = <<>> /\ gone = {}
  /\ \/ rows = <<>> /\ nextId = 1
     \/ rows = <<Row(1, NoSession, "user", <<1>>)>> /\ nextId = 2
  /\ snapshot = [s \in Sids |-> NoSummary]
  /\ run = [s \in Sids |-> Idle] /\ doing = [c \in Clients |-> Idle]
  /\ said = [s \in Sids |-> {}] /\ stale = {} /\ halved = {} /\ stranded = FALSE
-----------------------------------------------------------------------------
Fresh == {s \in Sids : s = Len(listed) + Cardinality(gone) + 1}
Running == {s \in Sids : run[s] # Idle}
Room == nextId <= MaxIds

(* A row whose text nobody wrote before. *)
Add(s, role) ==
  /\ rows' = Append(rows, Row(nextId, s, role, <<nextId>>))
  /\ nextId' = nextId + 1
  /\ said' = IF role \in ToModel THEN [said EXCEPT ![s] = @ \cup {nextId}] ELSE said

(* Rows taken out of a session: what they said is taken back. *)
Drop(s, gonerows) ==
  /\ rows' = SelectSeq(rows, LAMBDA r : r \notin gonerows)
  /\ said' = [said EXCEPT ![s] = @ \ UNION {Range(r.says) : r \in gonerows}]

(* The last row that a summary of s covers, or will when it is written. *)
Horizon(s) ==
  LET coming == {doing[c].last : c \in {d \in Clients : doing[d].at = "compact" /\ doing[d].of = s}}
  IN CHOOSE id \in coming \cup {snapshot[s].covered} :
       \A other \in coming \cup {snapshot[s].covered} : other <= id

Touch(s, changed) ==
  stale' = IF \E r \in changed : r.role \in ToModel /\ r.id <= Horizon(s)
             THEN stale \cup {s} ELSE stale

(* EnsureDefaultSession finds no session, and makes one... *)
EnsureFinds(c) ==
  /\ doing[c] = Idle /\ listed = <<>>
  /\ doing' = [doing EXCEPT ![c] = [at |-> "default"]]
  /\ UNCHANGED <<listed, gone, rows, nextId, snapshot, run, said, stale, halved, stranded>>

(* A bug to catch: the rows of none stay without a session. *)
ClaimNothing(s) == UNCHANGED rows

Claim(s) ==
  rows' = [i \in DOMAIN rows |-> IF rows[i].session = NoSession
                                   THEN [rows[i] EXCEPT !.session = s] ELSE rows[i]]

EnsureCreates(c) ==
  /\ doing[c].at = "default"
  /\ \E s \in Fresh :
       /\ listed' = Append(listed, s)
       /\ doing' = [doing EXCEPT ![c] = [at |-> "claim", of |-> s]]
  /\ UNCHANGED <<gone, rows, nextId, snapshot, run, said, stale, halved, stranded>>

(* The session is listed, and may be used, before its claim of the rows... *)
EnsureClaims(c) ==
  LET s == doing[c].of
      claimed == Of(NoSession)
  IN /\ doing[c].at = "claim"
     /\ Claim(s)
     /\ said' = [said EXCEPT ![s] = @ \cup Range(Says(claimed))]
     /\ Touch(s, Range(claimed))
     /\ doing' = [doing EXCEPT ![c] = Idle]
     /\ UNCHANGED <<listed, gone, nextId, snapshot, run, halved, stranded>>

Claiming == {c \in Clients : doing[c].at = "claim"}

(* ... which may fail: no later call claims them, each finds the session. *)
EnsureFails(c) ==
  /\ c \in Claiming
  /\ stranded' = TRUE
  /\ doing' = [doing EXCEPT ![c] = Idle]
  /\ UNCHANGED <<listed, gone, rows, nextId, snapshot, run, said, stale, halved>>

(* CreateChatSession: the row; the number in its name is left out. *)
Create ==
  /\ \E s \in Fresh : listed' = Append(listed, s)
  /\ stranded' = (stranded \/ (listed = <<>> /\ Of(NoSession) # <<>>))
  /\ UNCHANGED <<gone, rows, nextId, snapshot, run, doing, said, stale, halved>>

ForkChecks(c, s) ==
  /\ doing[c] = Idle /\ s \in Range(listed) /\ run[s] = Idle
  /\ doing' = [doing EXCEPT ![c] = [at |-> "fork", of |-> s]]
  /\ UNCHANGED <<listed, gone, rows, nextId, snapshot, run, said, stale, halved, stranded>>

(* A bug to catch: the copy keeps the covered id of the source. *)
SameCovered(s, copies) == snapshot[s]

(* The summary's last row is the copy's row at the same place. *)
Remapped(s, copies) ==
  LET offset == Len(UpTo(Of(s), snapshot[s].covered))
  IN IF offset = 0 THEN NoSummary
     ELSE [covered |-> copies[offset].id, of |-> snapshot[s].of]

(* ForkChatSession, a transaction *)
ForkCopies(c) ==
  LET s == doing[c].of
      source == Of(s)
  IN /\ doing[c].at = "fork"
     /\ IF s \notin Range(listed)
          THEN UNCHANGED <<listed, rows, nextId, snapshot, said, stale, halved>>
          ELSE \E t \in Fresh :
            LET copies == [i \in DOMAIN source |-> [source[i] EXCEPT !.id = nextId + i - 1,
                                                                     !.session = t]]
            IN /\ nextId + Len(source) <= MaxIds + 1
               /\ listed' = Append(listed, t)
               /\ rows' = rows \o copies /\ nextId' = nextId + Len(source)
               /\ snapshot' = [snapshot EXCEPT ![t] = Remapped(s, copies)]
               /\ said' = [said EXCEPT ![t] = said[s]]
               /\ stale' = IF s \in stale THEN stale \cup {t} ELSE stale
               /\ halved' = IF s \in halved THEN halved \cup {t} ELSE halved
     /\ doing' = [doing EXCEPT ![c] = Idle]
     /\ UNCHANGED <<gone, run, stranded>>

(* handleDeleteSession: with ifEmpty only a session that has no message. *)
DeleteChecks(c, s) ==
  /\ doing[c] = Idle /\ s \in Range(listed)
  /\ \E ifEmpty \in BOOLEAN :
       /\ ifEmpty => Of(s) = <<>>
       /\ doing' = [doing EXCEPT ![c] = [at |-> "delete", of |-> s, ifEmpty |-> ifEmpty]]
  /\ UNCHANGED <<listed, gone, rows, nextId, snapshot, run, said, stale, halved, stranded>>

(* DeleteChatSession: the rows, then the session. *)
DeleteRows(c) ==
  /\ doing[c].at = "delete"
  /\ Drop(doing[c].of, Range(Of(doing[c].of)))
  /\ doing' = [doing EXCEPT ![c] = [@ EXCEPT !.at = "drop"]]
  /\ Touch(doing[c].of, Range(Of(doing[c].of)))
  /\ UNCHANGED <<listed, gone, nextId, snapshot, run, halved, stranded>>

DeleteSession(c) ==
  LET s == doing[c].of IN
  /\ doing[c].at = "drop"
  /\ listed' = SelectSeq(listed, LAMBDA t : t # s) /\ gone' = gone \cup {s}
  /\ doing' = [doing EXCEPT ![c] = Idle]
  /\ UNCHANGED <<rows, nextId, snapshot, run, said, stale, halved, stranded>>

(* handleCompact: CompactProject reads the rows, and asks the model. *)
CompactReads(c, s) ==
  /\ doing[c] = Idle /\ s \in Range(listed) /\ Of(s) # <<>>
  /\ doing' = [doing EXCEPT ![c] = [at |-> "compact", of |-> s, last |-> Last(Of(s)).id,
                                    text |-> Says(Model(Of(s)))]]
  /\ UNCHANGED <<listed, gone, rows, nextId, snapshot, run, said, stale, halved, stranded>>

CoversRead(c) == doing[c].last

CompactSaves(c) ==
  LET s == doing[c].of IN
  /\ doing[c].at = "compact" /\ Room
  /\ snapshot' = [snapshot EXCEPT ![s] = [covered |-> CoversRead(c), of |-> doing[c].text]]
  /\ run' = IF run[s].at \in {"begun", "listing", "windowing"}
              THEN [run EXCEPT ![s] = [@ EXCEPT !.raced = TRUE]] ELSE run
  /\ Add(s, "notice")
  /\ doing' = [doing EXCEPT ![c] = Idle]
  /\ UNCHANGED <<listed, gone, stale, halved, stranded>>

(* handleTruncateMessages, whether a run is on or not. *)
Truncate(s) ==
  /\ s \in Range(listed) /\ Of(s) # <<>>
  /\ \E id \in {0} \cup {r.id : r \in Range(Of(s))} :
       LET cut == Range(After(Of(s), id))
       IN cut # {} /\ Drop(s, cut) /\ Touch(s, cut)
  /\ UNCHANGED <<listed, gone, nextId, snapshot, run, doing, halved, stranded>>

(* handleChatErrorsClear *)
ClearErrors(s) ==
  LET errors == {r \in Range(Of(s)) : r.role = "error"}
  IN /\ errors # {} /\ Drop(s, errors)
     /\ UNCHANGED <<listed, gone, nextId, snapshot, run, doing, stale, halved, stranded>>
-----------------------------------------------------------------------------
LastUser(s) == Last(SelectSeq(Of(s), LAMBDA r : r.role = "user"))
HasUser(s) == \E r \in Range(Of(s)) : r.role = "user"

Begins(s, kind, row) ==
  /\ Cardinality(Running) < MaxRuns
  /\ run' = [run EXCEPT ![s] = [at |-> "begun", kind |-> kind, row |-> row, raced |-> FALSE]]

(* handleChat with a new message *)
Send(s) ==
  /\ s \in Range(listed) /\ run[s] = Idle /\ Room
  /\ Begins(s, "new", 0)
  /\ UNCHANGED <<listed, gone, rows, nextId, snapshot, doing, said, stale, halved, stranded>>

(* handleChat with an edit: the text is changed before a run is looked for. *)
Edit(s) ==
  /\ s \in Range(listed) /\ Room
  /\ \E r \in Range(Of(s)) :
       /\ r.role = "user"
       /\ rows' = [i \in DOMAIN rows |-> IF rows[i] = r THEN [r EXCEPT !.says = <<nextId>>]
                                           ELSE rows[i]]
       /\ said' = [said EXCEPT ![s] = (@ \ Range(r.says)) \cup {nextId}]
       /\ Touch(s, {r})
       /\ IF run[s] = Idle THEN Begins(s, "edit", r.id) ELSE UNCHANGED run
  /\ nextId' = nextId + 1
  /\ UNCHANGED <<listed, gone, snapshot, doing, halved, stranded>>

(* continuedPartial *)
Partial(s) ==
  LET rs == Of(s)
      n == Len(rs)
  IN IF n >= 3 /\ rs[n].role = "error" /\ rs[n - 1].role = "assistant"
          /\ rs[n - 1].id > LastUser(s).id
       THEN rs[n - 1].id ELSE 0

(* handleChatRetry *)
Retry(s) ==
  /\ s \in Range(listed) /\ run[s] = Idle /\ HasUser(s)
  /\ IF Partial(s) > 0 THEN Begins(s, "continue", Partial(s))
     ELSE Begins(s, "retry", LastUser(s).id)
  /\ UNCHANGED <<listed, gone, rows, nextId, snapshot, doing, said, stale, halved, stranded>>

(* RunChat: the user's row, or what follows it goes. *)
Rewrite(s) ==
  LET cut == Range(After(Of(s), run[s].row)) IN
  /\ run[s].at = "begun"
  /\ CASE run[s].kind = "new" ->
            /\ Room /\ Add(s, "user")
            /\ run' = [run EXCEPT ![s] = [@ EXCEPT !.at = "listing", !.row = nextId]]
            /\ UNCHANGED stale
       [] run[s].kind \in {"retry", "edit"} ->
            /\ Drop(s, cut) /\ Touch(s, cut)
            /\ run' = [run EXCEPT ![s] = [@ EXCEPT !.at = "listing"]]
            /\ UNCHANGED nextId
       [] run[s].kind = "continue" ->
            /\ run' = [run EXCEPT ![s] = [@ EXCEPT !.at = "listing"]]
            /\ UNCHANGED <<rows, nextId, said, stale>>
  /\ UNCHANGED <<listed, gone, snapshot, doing, halved, stranded>>

(* ListMessages, and the summary for the system prompt. *)
ListRows(s) ==
  /\ run[s].at = "listing"
  /\ run' = [run EXCEPT ![s] =
       [at |-> "windowing", kind |-> run[s].kind, row |-> run[s].row, raced |-> run[s].raced,
        stored |-> Model(IF run[s].kind = "new" THEN Of(s) ELSE UpTo(Of(s), run[s].row)),
        summary |-> snapshot[s].of]]
  /\ UNCHANGED <<listed, gone, rows, nextId, snapshot, doing, said, stale, halved, stranded>>

(* The rows that the snapshot, read again, does not cover. *)
Window(s) == After(run[s].stored, snapshot[s].covered)

BuildHistory(s) ==
  /\ run[s].at = "windowing"
  /\ run' = [run EXCEPT ![s] =
       [at |-> "running", rounds |-> 0,
        kind |-> IF run[s].kind = "continue" THEN "continue" ELSE "new",
        row |-> IF run[s].kind = "continue" THEN run[s].row ELSE 0,
        view |-> IF run[s].raced \/ s \in stale THEN "changed"
                 ELSE IF run[s].summary \o Says(Window(s)) = Says(run[s].stored) THEN "whole"
                 ELSE "other"]]
  /\ UNCHANGED <<listed, gone, rows, nextId, snapshot, doing, said, stale, halved, stranded>>

(* A round: the assistant's row and a result's. *)
Round(s) ==
  /\ run[s].at = "running" /\ run[s].rounds = 0 /\ nextId < MaxIds
  /\ rows' = rows \o <<Row(nextId, s, "assistant", <<nextId>>),
                       Row(nextId + 1, s, "tool", <<nextId + 1>>)>>
  /\ nextId' = nextId + 2
  /\ said' = [said EXCEPT ![s] = @ \cup {nextId, nextId + 1}]
  /\ run' = [run EXCEPT ![s] = [@ EXCEPT !.rounds = 1]]
  /\ UNCHANGED <<listed, gone, snapshot, doing, stale, halved, stranded>>

Answer(s) ==
  /\ run[s].at = "running" /\ Room
  /\ Add(s, "assistant")
  /\ run' = [run EXCEPT ![s] = IF run[s].kind = "continue" THEN [@ EXCEPT !.at = "merging"]
                               ELSE Idle]
  /\ UNCHANGED <<listed, gone, snapshot, doing, stale, halved, stranded>>

(* A failure in the middle of the reply: what it says so far, and the error. *)
Fails(s) ==
  /\ run[s].at = "running" /\ nextId < MaxIds
  /\ \E partial \in BOOLEAN :
       LET id == IF partial THEN nextId + 1 ELSE nextId
           reply == IF partial THEN <<Row(nextId, s, "assistant", <<nextId>>)>> ELSE <<>>
       IN /\ rows' = rows \o reply \o <<Row(id, s, "error", <<id>>)>>
          /\ nextId' = id + 1
          /\ said' = IF partial THEN [said EXCEPT ![s] = @ \cup {nextId}] ELSE said
  /\ run' = [run EXCEPT ![s] = Idle]
  /\ UNCHANGED <<listed, gone, snapshot, doing, stale, halved, stranded>>

Stopped(s) ==
  /\ run[s].at \notin {"idle", "merging", "cutting"}
  /\ run' = [run EXCEPT ![s] = Idle]
  /\ UNCHANGED <<listed, gone, rows, nextId, snapshot, doing, said, stale, halved, stranded>>

(* The continuation and the last error go; rounds in between stay. *)
MergeCut(cont, later) ==
  {cont} \cup LET errors == SelectSeq(later, LAMBDA r : r.role = "error")
              IN IF errors = <<>> THEN {} ELSE {Last(errors)}

(* MergeContinuedTurn: the text goes to the partial, then rows go; not found when
   the partial or a later reply is not there. *)
MergeJoins(s) ==
  LET partials == {r \in Range(rows) : r.id = run[s].row}
      later == After(Of(s), run[s].row)
      replies == SelectSeq(later, LAMBDA r : r.role = "assistant")
      cont == Last(replies)
  IN /\ run[s].at = "merging"
     /\ IF partials = {} \/ replies = <<>>
          THEN run' = [run EXCEPT ![s] = Idle] /\ UNCHANGED <<rows, stale, halved>>
          ELSE /\ rows' = [i \in DOMAIN rows |-> IF rows[i] \in partials
                            THEN [rows[i] EXCEPT !.says = @ \o cont.says] ELSE rows[i]]
               /\ run' = [run EXCEPT ![s] = [at |-> "cutting", cut |-> MergeCut(cont, later),
                                             whole |-> s \notin halved]]
               /\ Touch(s, partials \cup MergeCut(cont, later))
               /\ halved' = halved \cup {s}
     /\ UNCHANGED <<listed, gone, nextId, snapshot, doing, said, stranded>>

MergeCuts(s) ==
  LET cut == run[s].cut IN
  /\ run[s].at = "cutting"
  /\ rows' = SelectSeq(rows, LAMBDA r : r \notin cut)
  /\ halved' = IF run[s].whole /\ cut \subseteq Range(rows) THEN halved \ {s} ELSE halved
  /\ run' = [run EXCEPT ![s] = Idle]
  /\ UNCHANGED <<listed, gone, nextId, snapshot, doing, said, stale, stranded>>

(* BackgroundNotify: a row for a session, listed or not any more. *)
BackgroundRow(s) ==
  /\ s \in Range(listed) \cup gone /\ Room
  /\ Add(s, "user")
  /\ UNCHANGED <<listed, gone, snapshot, run, doing, stale, halved, stranded>>

(* The server restarts in the middle of whatever it does. *)
Restart ==
  /\ Running # {} \/ \E c \in Clients : doing[c] # Idle
  /\ run' = [s \in Sids |-> Idle] /\ doing' = [c \in Clients |-> Idle]
  /\ stranded' = (stranded \/ Claiming # {})
  /\ UNCHANGED <<listed, gone, rows, nextId, snapshot, said, stale, halved>>

Next ==
  \/ Create \/ Restart
  \/ \E c \in Clients :
       \/ EnsureFinds(c) \/ EnsureCreates(c) \/ EnsureClaims(c) \/ EnsureFails(c) \/ ForkCopies(c)
       \/ DeleteRows(c) \/ DeleteSession(c) \/ CompactSaves(c)
       \/ \E s \in Sids : ForkChecks(c, s) \/ DeleteChecks(c, s) \/ CompactReads(c, s)
  \/ \E s \in Sids :
       \/ Truncate(s) \/ ClearErrors(s) \/ Send(s) \/ Edit(s) \/ Retry(s)
       \/ Rewrite(s) \/ ListRows(s) \/ BuildHistory(s) \/ Round(s) \/ Answer(s) \/ Fails(s)
       \/ Stopped(s) \/ MergeJoins(s) \/ MergeCuts(s) \/ BackgroundRow(s)

Spec == Init /\ [][Next]_sessionVars
-----------------------------------------------------------------------------
(* GetCompactionSnapshot: over forks, background rows, retries and merges the model
   is given the whole transcript once, the summary's part and then the rows, unless
   a row that the summary covers was changed, or a compaction was saved while the
   turn was reading: it reads the snapshot twice. *)
ViewIsTranscript ==
  \A s \in Sids :
    run[s].at = "running" => run[s].view # "other"

(* MergeContinuedTurn, ForkChatSession, EnsureDefaultSession: the rows of a session
   say what was said in it and not taken back, each piece once, unless a merge is
   or was left half way, or its rows went in the middle of it. *)
TextKept ==
  \A s \in Range(listed) \ halved :
    LET text == Says(Model(Of(s)))
    IN IsInjective(text) /\ Range(text) = said[s]

(* EnsureDefaultSession: once a project has a session, a row of none is claimed or about
   to be, unless the first session was made without it, or its claim failed or stopped. *)
BeforeIsClaimed ==
  Of(NoSession) # <<>> => listed = <<>> \/ Claiming # {} \/ stranded

(* "claiming any pre-session messages for it when the project has none yet" (store.go),
   whatever happens: what stranded excuses breaks it. *)
NoneStranded == ~stranded

(* "Edits rewrite history, so they must wait for a quiet project" (handlers_chat.go). *)
EditsWait ==
  [][\A s \in Sids : run[s] # Idle /\ run'[s] = run[s]
       => \A i \in DOMAIN rows \cap DOMAIN rows' :
            rows[i].session = s /\ rows'[i].id = rows[i].id => rows'[i].says = rows[i].says]_sessionVars
=============================================================================
