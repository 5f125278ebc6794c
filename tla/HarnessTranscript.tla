-------------------------- MODULE HarnessTranscript --------------------------
(***************************************************************************)
(* The two transcripts of one session on the harness: the rows v1 stores   *)
(* (internal/store) and the sidecar's conversations (sidecar/src/host.js), *)
(* which runHarnessTurn of internal/server/harness_chat.go brings together *)
(* before each turn: ensure the conversation, rewind it to where the rows  *)
(* end, submit.  A conversation is the sequence of its user turns, each    *)
(* with its answer; no conversation is compacted.  The sidecar may restart *)
(* between any two calls and keeps its conversations when it does.         *)
(***************************************************************************)
EXTENDS Naturals, Sequences, SequencesExt

CONSTANTS
  TurnOps,     (* the kinds of turn a behaviour has                        *)
  MaxSent,     (* bound: messages the user sends                           *)
  MaxConvs,    (* bound: conversations                                     *)
  MaxTurns,    (* bound: turns                                             *)
  MaxShots     (* bound: pictures a tool injects                           *)

VARIABLES
  rows,        (* the session's rows: role and message                     *)
  convs,       (* the user turns of each conversation                      *)
  made,        (* conversations so far                                     *)
  stored,      (* the session's harness conversation id, 0 when it has none *)
  sessions,    (* the sidecar's entry for the session, 0 when it has none  *)
  stage,       (* the call runHarnessTurn makes next                       *)
  using,       (* sidecarID                                                *)
  sending,     (* the message of the turn                                  *)
  sentMsgs,    (* messages so far                                          *)
  turns,       (* turns so far                                             *)
  straight     (* no turn or steer was retried, continued or failed, and no
                  steered message went without its row                     *)

transcriptVars ==
  <<rows, convs, made, stored, sessions, stage, using, sending, sentMsgs, turns, straight>>

Row(role, m) == [role |-> role, msg |-> m]

(* The rows of s in one of the roles. *)
InRole(s, roles) ==
  FlattenSeq([i \in DOMAIN s |-> IF s[i].role \in roles THEN <<s[i]>> ELSE <<>>])

(* Rows with the role user: the messages sent and what a tool injected. *)
UserRoles == {"user", "screenshot"}
UserRows(s) == InRole(s, UserRoles)
EndsOnUser == rows # <<>> /\ Last(rows).role \in UserRoles

(* harnessKeepUserTurns *)
KeepUserTurns == Len(UserRows(rows)) - (IF EndsOnUser THEN 1 ELSE 0)

Roles == {"user", "screenshot", "assistant"}

TypeOK ==
  /\ rows \in Seq([role : Roles, msg : 0 .. sentMsgs])
  /\ made \in 0 .. MaxConvs /\ sentMsgs \in 0 .. MaxSent /\ turns \in 0 .. MaxTurns
  /\ convs \in [1 .. MaxConvs -> Seq(1 .. sentMsgs)]
  /\ {stored, sessions, using} \subseteq 0 .. made
  /\ stage \in {"idle", "ensure", "rewind", "submit", "run", "record"}
  /\ sending \in 0 .. sentMsgs
  /\ straight \in BOOLEAN
  /\ stage # "idle" => KeepUserTurns \in Nat

Init ==
  /\ rows = <<>> /\ convs = [c \in 1 .. MaxConvs |-> <<>>]
  /\ made = 0 /\ stored = 0 /\ sessions = 0
  /\ stage = "idle" /\ using = 0 /\ sending = 0
  /\ sentMsgs = 0 /\ turns = 0 /\ straight = TRUE
-----------------------------------------------------------------------------
(* runHarnessTurn, before the first call.  A fresh turn adds its message ... *)
Fresh ==
  /\ sentMsgs < MaxSent
  /\ sentMsgs' = sentMsgs + 1
  /\ sending' = sentMsgs'
  /\ rows' = Append(rows, Row("user", sentMsgs'))
  /\ UNCHANGED straight

(* ... a retry or an edit ends the rows on the message it runs again, and
   anything after it goes ... *)
Retry ==
  \E i \in DOMAIN rows :
    /\ rows[i].role = "user"
    /\ rows' = SubSeq(rows, 1, i)
    /\ sending' = rows[i].msg
    /\ straight' = FALSE
    /\ UNCHANGED sentMsgs

(* ... and one that continues a partial answer leaves them and sends the last
   message again. *)
Continue ==
  /\ rows # <<>> /\ Last(rows).role = "assistant"
  /\ LET mine == InRole(rows, {"user"})
     IN mine # <<>> /\ sending' = Last(mine).msg
  /\ straight' = FALSE
  /\ UNCHANGED <<rows, sentMsgs>>

Begin ==
  /\ stage = "idle" /\ turns < MaxTurns
  /\ turns' = turns + 1
  /\ stage' = "ensure"
  /\ \/ "fresh" \in TurnOps /\ Fresh
     \/ "retry" \in TurnOps /\ Retry
     \/ "continue" \in TurnOps /\ Continue
  /\ UNCHANGED <<convs, made, stored, sessions, using>>

(* The conversation conversation.ensure finds; a bug to catch: the id Go
   remembers is not sent. *)
FoundBySession == sessions
Found == IF stored # 0 THEN stored ELSE sessions

(* Ensure: the conversation the store names, else the one the sidecar knows the
   session by, else a new one, whose id is stored. *)
Ensure ==
  /\ stage = "ensure"
  /\ IF Found # 0
       THEN using' = Found /\ UNCHANGED made
       ELSE made < MaxConvs /\ made' = made + 1 /\ using' = made'
  /\ sessions' = using'
  /\ stored' = using'
  /\ stage' = "rewind"
  /\ UNCHANGED <<rows, convs, sending, sentMsgs, turns, straight>>

StoreFork(c) == stored' = c

(* The user turns rewindIfNeeded keeps of n when keep are asked for and n is
   more: it forks before the turn that many from the end, or before the first. *)
KeptOf(n, keep) == IF keep > 0 THEN n - keep ELSE 0

(* conversation.rewind: nothing, unless the conversation has more user turns
   than the rows; then a fork of it, or a new conversation, takes its place. *)
Rewind ==
  /\ stage = "rewind"
  /\ stage' = "submit"
  /\ LET n == Len(convs[using]) IN
     IF n <= KeepUserTurns
       THEN UNCHANGED <<convs, made, stored, sessions, using>>
       ELSE /\ made < MaxConvs
            /\ made' = made + 1
            /\ using' = made'
            /\ convs' = [convs EXCEPT ![made'] = SubSeq(convs[using], 1, KeptOf(n, KeepUserTurns))]
            /\ sessions' = IF sessions = using THEN made' ELSE sessions
            /\ StoreFork(made')
  /\ UNCHANGED <<rows, sending, sentMsgs, turns, straight>>

(* turn.submit *)
Submit ==
  /\ stage = "submit"
  /\ convs' = [convs EXCEPT ![using] = Append(@, sending)]
  /\ stage' = "run"
  /\ UNCHANGED <<rows, made, stored, sessions, using, sending, sentMsgs, turns, straight>>

(* A call fails: the turn ends with an error. *)
CallFails ==
  /\ "fail" \in TurnOps
  /\ stage \in {"ensure", "rewind", "submit"}
  /\ stage' = "idle"
  /\ straight' = FALSE
  /\ UNCHANGED <<rows, convs, made, stored, sessions, using, sending, sentMsgs, turns>>

(* pollSteer hands the run a message of the queue: the sidecar makes it a turn of
   the conversation, and answers ... *)
SteerTaken ==
  /\ "steer" \in TurnOps
  /\ stage = "run" /\ sentMsgs < MaxSent
  /\ sentMsgs' = sentMsgs + 1
  /\ convs' = [convs EXCEPT ![using] = Append(@, sentMsgs')]

(* ... the answer comes, and AddInjectedMessage is next ... *)
Steer ==
  /\ SteerTaken
  /\ stage' = "record"
  /\ UNCHANGED <<rows, made, stored, sessions, using, sending, turns, straight>>

(* ... or it does not come: a stop, or a connection that is lost.  The message is
   back in the queue, and a later turn sends it once more.  (A steer the sidecar
   did not take changes neither transcript.) *)
SteerFails ==
  /\ SteerTaken
  /\ straight' = FALSE
  /\ UNCHANGED <<rows, made, stored, sessions, stage, using, sending, turns>>

(* AddInjectedMessage stores the steered message ... *)
SteerRow == rows' = Append(rows, Row("user", sentMsgs)) /\ UNCHANGED straight

(* ... or fails, which is logged: the conversation has a turn v1 has no row for. *)
SteerNoRow ==
  /\ "fail" \in TurnOps
  /\ straight' = FALSE
  /\ UNCHANGED rows

RecordSteer ==
  /\ stage = "record"
  /\ SteerRow \/ SteerNoRow
  /\ stage' = "run"
  /\ UNCHANGED <<convs, made, stored, sessions, using, sending, sentMsgs, turns>>

(* A tool injects a picture, at any time of the run: a user row the conversation
   has no turn for. *)
Screenshot ==
  /\ "screenshot" \in TurnOps
  /\ stage \in {"run", "record"}
  /\ Len(InRole(rows, {"screenshot"})) < MaxShots
  /\ rows' = Append(rows, Row("screenshot", 0))
  /\ UNCHANGED <<convs, made, stored, sessions, stage, using, sending, sentMsgs, turns, straight>>

(* A round commits: the answer becomes a row; the run may go on or be over.  A run
   that is stopped before it produced anything leaves no row. *)
Answer ==
  /\ stage = "run"
  /\ \/ /\ rows' = IF Last(rows).role = "assistant" THEN rows ELSE Append(rows, Row("assistant", 0))
        /\ stage' \in {"run", "idle"}
     \/ stage' = "idle" /\ UNCHANGED rows
  /\ UNCHANGED <<convs, made, stored, sessions, using, sending, sentMsgs, turns, straight>>

(* The sidecar restarts: its sessions map is gone, its conversations are not. *)
Restart ==
  /\ sessions # 0
  /\ sessions' = 0
  /\ UNCHANGED <<rows, convs, made, stored, stage, using, sending, sentMsgs, turns, straight>>

Next ==
  \/ Begin \/ Ensure \/ Rewind \/ Submit \/ CallFails
  \/ Steer \/ SteerFails \/ RecordSteer \/ Screenshot \/ Answer \/ Restart

Spec == Init /\ [][Next]_transcriptVars
-----------------------------------------------------------------------------
MsgsOf(s) ==
  LET mine == InRole(s, {"user"})
  IN [i \in DOMAIN mine |-> mine[i].msg]

(* ensure, harnessKeepUserTurns and rewindIfNeeded: while no turn was retried,
   continued or failed, and every steered message was answered for and has its row,
   the conversation the next turn resumes holds exactly
   the messages of the rows, whatever was steered or injected and however often
   the sidecar restarted: no rewind is forced. *)
HistoryKept ==
  (straight /\ stage = "idle" /\ stored # 0) => convs[stored] = MsgsOf(rows)

(* SetHarnessConversationID: a turn that is submitted runs on the conversation
   the store names, so what it adds is there for the next turn, also after the
   sidecar has forgotten the session. *)
RunsOnStored == stage \in {"submit", "run", "record"} => using = stored

(* What runHarnessTurn's comment says of the rewind: when the turn is submitted
   the conversation ends where v1's rows did before it, so a retried question
   reaches the model once and on its own history. *)
RewoundToRows == stage = "submit" => convs[using] = MsgsOf(Front(rows))

(* The promise of pollSteer's comment: v1's store holds what was steered, "or the
   steered turn disappears from the transcript on the next reload".  With fresh
   turns and steers alone SteerFails and SteerNoRow break it. *)
SteersHaveRows ==
  (stage = "idle" /\ stored # 0) => ToSet(convs[stored]) \subseteq ToSet(MsgsOf(rows))
=============================================================================
