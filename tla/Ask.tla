--------------------------------- MODULE Ask ---------------------------------
(***************************************************************************)
(* Questions to the user (internal/server/handlers_ask.go, askUser of      *)
(* internal/agent/tools.go): one session, whose turns ask one question at  *)
(* a time, answers posted at any moment, and the session's durable row.    *)
(***************************************************************************)
EXTENDS Naturals, FiniteSets

CONSTANTS
  Asks,       (* ids of questions; each is asked once                     *)
  Texts,      (* what may be asked                                        *)
  Responders  (* bound: answers on their way at once                      *)

VARIABLES
  asking,     (* the question of the tool that runs                       *)
  text,       (* what each question asks                                  *)
  step,       (* where each question's turnAsk is                         *)
  pendingRow, (* the row of pending_asks                                  *)
  reqs,       (* askRegistry                                              *)
  ch,         (* answers sent to a question and not received              *)
  outcome,    (* what turnAsk returned                                    *)
  posting,    (* the answer each responder has cleared the row for        *)
  askCache,   (* texts answered in this turn                              *)
  turn, cancelled

askVars == <<asking, text, step, pendingRow, reqs, ch, outcome, posting, askCache,
             turn, cancelled>>

None == "none"

TypeOK ==
  /\ asking \in Asks \cup {None}
  /\ text \in [Asks -> Texts \cup {None}]
  /\ step \in [Asks -> {"new", "recorded", "waiting", "clearing", "over"}]
  /\ pendingRow \in Asks \cup {None}
  /\ reqs \subseteq Asks
  /\ ch \in [Asks -> 0 .. 1]
  /\ outcome \in [Asks -> {None, "answer", "timeout", "cancelled"}]
  /\ posting \in [Responders -> Asks \cup {None}]
  /\ askCache \subseteq Texts
  /\ turn \in BOOLEAN /\ cancelled \in BOOLEAN

Init ==
  /\ asking = None /\ text = [q \in Asks |-> None] /\ step = [q \in Asks |-> "new"]
  /\ pendingRow = None /\ reqs = {} /\ ch = [q \in Asks |-> 0]
  /\ outcome = [q \in Asks |-> None]
  /\ posting = [h \in Responders |-> None]
  /\ askCache = {} /\ turn = FALSE /\ cancelled = FALSE
-----------------------------------------------------------------------------
SupersedeRow == pendingRow' = None

(* streamChatTurn: a new turn drops what an earlier, dead run left pending. *)
TurnBegins ==
  /\ ~turn
  /\ turn' = TRUE /\ cancelled' = FALSE /\ askCache' = {}
  /\ SupersedeRow
  /\ UNCHANGED <<asking, text, step, reqs, ch, outcome, posting>>

TurnEnds ==
  /\ turn /\ asking = None
  /\ turn' = FALSE
  /\ UNCHANGED <<asking, text, step, pendingRow, reqs, ch, outcome, posting,
                 askCache, cancelled>>

StopTurn ==
  /\ turn /\ ~cancelled
  /\ cancelled' = TRUE
  /\ UNCHANGED <<asking, text, step, pendingRow, reqs, ch, outcome, posting,
                 askCache, turn>>

(* askUser, and turnAsk up to SetPendingAsk; an answer of this turn is reused. *)
AskUser(q, t) ==
  /\ turn /\ asking = None /\ step[q] = "new" /\ t \notin askCache
  /\ text' = [text EXCEPT ![q] = t]
  /\ asking' = q
  /\ step' = [step EXCEPT ![q] = "recorded"]
  /\ pendingRow' = q
  /\ UNCHANGED <<reqs, ch, outcome, posting, askCache, turn, cancelled>>

(* register *)
Register(q) ==
  /\ step[q] = "recorded"
  /\ step' = [step EXCEPT ![q] = "waiting"]
  /\ reqs' = reqs \cup {q}
  /\ UNCHANGED <<asking, text, pendingRow, ch, outcome, posting, askCache, turn,
                 cancelled>>

(* The select of turnAsk: the answer, the time-out, or the stop. *)
Outcomes(q) ==
  {o \in {"answer", "timeout", "cancelled"} :
     /\ o = "answer" => ch[q] = 1
     /\ o = "cancelled" => cancelled}

Select(q) ==
  /\ step[q] = "waiting"
  /\ \E o \in Outcomes(q) :
       /\ outcome' = [outcome EXCEPT ![q] = o]
       /\ ch' = IF o = "answer" THEN [ch EXCEPT ![q] = 0] ELSE ch
  /\ step' = [step EXCEPT ![q] = "clearing"]
  /\ UNCHANGED <<asking, text, pendingRow, reqs, posting, askCache, turn, cancelled>>

(* A bug to catch: only an answer clears the row. *)
ClearAnswered(q) == pendingRow' = IF outcome[q] = "answer" THEN None ELSE pendingRow

ClearRow(q) == pendingRow' = None

Return(q) ==
  /\ step[q] = "clearing"
  /\ ClearRow(q)
  /\ step' = [step EXCEPT ![q] = "over"]
  /\ asking' = None
  /\ askCache' = IF outcome[q] = "answer" THEN askCache \cup {text[q]} ELSE askCache
  /\ UNCHANGED <<text, reqs, ch, outcome, posting, turn, cancelled>>
-----------------------------------------------------------------------------
(* handleAskRespond, for any question the page has seen: first the row. *)
Respond(h, q) ==
  /\ posting[h] = None /\ step[q] # "new"
  /\ posting' = [posting EXCEPT ![h] = q]
  /\ pendingRow' = None
  /\ UNCHANGED <<asking, text, step, reqs, ch, outcome, askCache, turn, cancelled>>

DropEntry(q) == reqs' = reqs \ {q}

(* resolve, and ok or not found; the channel takes one answer. *)
Resolve(h) ==
  LET q == posting[h] IN
  /\ q # None
  /\ posting' = [posting EXCEPT ![h] = None]
  /\ IF q \in reqs
       THEN /\ ch[q] = 0 /\ ch' = [ch EXCEPT ![q] = 1]
            /\ DropEntry(q)
       ELSE UNCHANGED <<reqs, ch>>
  /\ UNCHANGED <<asking, text, step, pendingRow, outcome, askCache, turn, cancelled>>

(* The server restarts; the row is all that stays. *)
Restart ==
  /\ asking' = None /\ turn' = FALSE /\ cancelled' = FALSE /\ askCache' = {}
  /\ step' = [q \in Asks |-> IF step[q] = "new" THEN "new" ELSE "over"]
  /\ reqs' = {} /\ ch' = [q \in Asks |-> 0] /\ posting' = [h \in Responders |-> None]
  /\ UNCHANGED <<text, pendingRow, outcome>>

Next ==
  \/ TurnBegins \/ TurnEnds \/ StopTurn \/ Restart
  \/ \E q \in Asks : (\E t \in Texts : AskUser(q, t)) \/ Register(q) \/ Select(q) \/ Return(q)
  \/ \E h \in Responders : Resolve(h) \/ \E q \in Asks : Respond(h, q)

(* The turn's goroutine and the handlers go on; a question times out. *)
Fairness ==
  /\ \A q \in Asks : WF_askVars(Register(q)) /\ WF_askVars(Select(q)) /\ WF_askVars(Return(q))
  /\ \A h \in Responders : WF_askVars(Resolve(h))

Spec == Init /\ [][Next]_askVars /\ Fairness
-----------------------------------------------------------------------------
(* turnAsk: while a turn runs, the row is of the question that waits: no card of a
   question that was answered, timed out, or died with its run. *)
NoStaleCard == turn /\ pendingRow # None => pendingRow = asking

(* askRegistry.resolve: no responder is stuck on a full channel. *)
EveryPostReturns == \A h \in Responders : posting[h] # None ~> posting[h] = None

(* turnAsk: the tool returns, whatever the user does. *)
EveryAskReturns == \A q \in Asks : step[q] = "waiting" ~> step[q] = "over"

(* "Persisted so the question survives app reloads" (store.go): a question that
   waits, with no answer to it on its way, has its row. *)
WaitingIsShown ==
  \A q \in Asks :
    step[q] = "waiting" /\ q \in reqs /\ (\A h \in Responders : posting[h] # q)
      => pendingRow = q
=============================================================================
