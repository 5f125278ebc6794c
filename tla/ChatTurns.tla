----------------------------- MODULE ChatTurns -----------------------------
(***************************************************************************)
(* The turns of one chat session: the goroutine of streamChatTurn, the     *)
(* queue of the run it owns, the rows the queue is written through to, and *)
(* the HTTP handlers that send, retry, resume and edit the queue while the *)
(* goroutine works, ends or crashes.                                       *)
(*                                                                         *)
(* One action is one critical section of turnManager.mu or turnQueue.mu,   *)
(* or one statement of the store; everything else of a handler and of the  *)
(* goroutine is local to it.  The messages are 1, 2, ... in the order the  *)
(* server accepts them.  Of the transcript only the rows of user messages  *)
(* are kept.                                                               *)
(***************************************************************************)
EXTENDS TurnQueue, FiniteSets

CONSTANTS
  MaxMessages,  (* bound: messages the user sends                          *)
  Handlers,     (* handler goroutines of the endpoints that take steps     *)
  Ops,          (* the requests they serve, a subset of AllOps             *)
  MaxResumes,   (* bound: resume requests                                  *)
  MaxReruns,    (* bound: times the held wait lets the loop go on          *)
  MaxCrashes,   (* bound: restarts of the server                           *)
  MaxFaults,    (* bound: writes of a user message that fail               *)
  None

AllOps == {"retry", "resume", "remove", "hold", "release", "steer", "reorder"}

ASSUME ChatTurnsAssumption ==
  /\ MaxMessages \in Nat /\ MaxResumes \in Nat /\ MaxReruns \in Nat
  /\ MaxCrashes \in Nat /\ MaxFaults \in Nat
  /\ IsFiniteSet(Handlers)
  /\ Ops \subseteq AllOps
  /\ None \notin Nat

Messages == 1 .. MaxMessages

(* The run's queue and one object per handler are all that is reachable. *)
QueueIds == 1 .. Cardinality(Handlers) + 1

VARIABLES
  queues,     (* the reachable turnQueue objects                           *)
  live,       (* the object of the active run, None when idle              *)
  rows,       (* the session's rows of queued_messages, in order           *)
  run,        (* streamChatTurn's locals: where it is, the turn's params,
                 messages taken out of the queue                           *)
  transcript, (* the user rows of the session's messages                   *)
  handlers,   (* the other handlers: step, queue object, request, row      *)
  accepted,   (* messages the server accepted so far                       *)
  sent,       (* turns or injections of each message, since last asked for *)
  deleted,    (* messages a delete request found and removed               *)
  editing,    (* messages whose last hold request is not released          *)
  mishaps,    (* what happened that excuses a lost or a doubled message    *)
  bounds      (* counters behind the bounds                                *)

vars == <<queues, live, rows, run, transcript, handlers, accepted, sent,
          deleted, editing, mishaps, bounds>>
history == <<deleted, editing>>

Idle == [pc |-> "idle", msg |-> 0, mode |-> "new", upto |-> 0, batch |-> <<>>]
Free == [pc |-> "free", ref |-> None, op |-> "none", arg |-> <<>>, pick |-> None]

RunSteps == {"idle", "start", "round", "inject", "requeue", "done", "readd",
             "follow", "checkHeld", "held", "ending"}

(* The steps of a resume that picked a row. *)
PickSteps == {"delete", "begin", "restore"}

TypeOK ==
  /\ live \in QueueIds \cup {None}
  /\ live = None <=> run.pc = "idle"
  /\ run.pc \in RunSteps /\ run.mode \in {"new", "redo", "continue"}
  /\ run.upto \in Nat /\ run.batch \in Seq(Messages)
  /\ run.pc # "idle" => run.msg \in Messages
  /\ \A q \in QueueIds :
       LET all == queues[q].pending \o queues[q].steers IN
       /\ \A i \in DOMAIN all : all[i].msg \in Messages /\ all[i].held \in BOOLEAN
       /\ Cardinality(Ids(all)) = Len(all)
  /\ \A i, j \in DOMAIN rows : i < j => rows[i].pos <= rows[j].pos
  /\ Cardinality(Ids(rows)) = Len(rows)
  /\ transcript \in Seq(Messages)
  /\ \A h \in Handlers : handlers[h].ref \in QueueIds \cup {None}
  /\ accepted \in 0 .. MaxMessages
  /\ sent \in [Messages -> 0 .. 2]
  /\ deleted \subseteq Messages /\ editing \subseteq Messages
  /\ mishaps \subseteq {"crash", "fault", "overlap"}
-----------------------------------------------------------------------------
(* store.NewID draws an id nobody holds: the least one not in use. *)
UsedIds ==
  (UNION {Ids(queues[q].pending) \cup Ids(queues[q].steers) : q \in QueueIds})
  \cup Ids(rows)
  \cup (UNION {ToSet(handlers[h].arg) : h \in Handlers})
  \cup {handlers[h].pick.id : h \in {g \in Handlers : handlers[g].pc \in PickSteps}}

NewID == CHOOSE n \in 1 .. Cardinality(UsedIds) + 1 :
           n \notin UsedIds /\ \A k \in 1 .. n - 1 : k \in UsedIds

(* Objects that neither the run nor a handler refers to are garbage. *)
Reachable(l, hs) == {l} \cup {hs[h].ref : h \in Handlers}
Collected(qs, l, hs) ==
  [q \in QueueIds |-> IF q \in Reachable(l, hs) THEN qs[q] ELSE EmptyQueue]

NewQueue == CHOOSE q \in QueueIds : q \notin Reachable(live, handlers)

SentOnceMore(m) == [sent EXCEPT ![m] = IF @ < 2 THEN @ + 1 ELSE 2]

(* A bug to catch: the change is not written through. *)
WriteUnsaved(q, content) ==
  /\ queues' = [queues EXCEPT ![q] = content]
  /\ rows' = rows

(* A method that changes the object writes it through before it unlocks. *)
Write(q, content) ==
  /\ queues' = [queues EXCEPT ![q] = content]
  /\ rows' = Snapshot(content)

(* beginOrQueue on an idle session: a run whose queue is what the rows say. *)
BeginRun(params) ==
  LET q == NewQueue IN
  /\ live = None
  /\ live' = q
  /\ queues' = [queues EXCEPT ![q] = Hydrate(rows)]
  /\ run' = params

NewTurn(m) == [Idle EXCEPT !.pc = "start", !.msg = m]

Init ==
  /\ queues = [q \in QueueIds |-> EmptyQueue]
  /\ live = None
  /\ rows = <<>>
  /\ run = Idle
  /\ transcript = <<>>
  /\ handlers = [h \in Handlers |-> Free]
  /\ accepted = 0
  /\ sent = [m \in Messages |-> 0]
  /\ deleted = {} /\ editing = {} /\ mishaps = {}
  /\ bounds = [resumes |-> 0, reruns |-> 0, crashes |-> 0, faults |-> 0]
-----------------------------------------------------------------------------
(* handleChat while a run is active: the message is queued onto it. *)
SendQueued ==
  /\ accepted < MaxMessages
  /\ live # None
  /\ Write(live, Add(queues[live], NewID, accepted + 1))
  /\ accepted' = accepted + 1
  /\ UNCHANGED <<live, run, transcript, handlers, sent, history, mishaps, bounds>>

(* handleChat on an idle session: the message is the new run's turn.  A refused
   run (the per-user cap) leaves everything as it was. *)
SendStarts ==
  /\ accepted < MaxMessages
  /\ BeginRun(NewTurn(accepted + 1))
  /\ accepted' = accepted + 1
  /\ UNCHANGED <<rows, transcript, handlers, sent, history, mishaps, bounds>>

(* RunChat puts the user's row where the turn needs it: a new one, or none
   after the row the turn re-runs. *)
Start ==
  /\ run.pc = "start"
  /\ transcript' = CASE run.mode = "new" -> Append(transcript, run.msg)
                     [] run.mode = "redo" -> SubSeq(transcript, 1, run.upto)
                     [] run.mode = "continue" -> transcript
  /\ sent' = SentOnceMore(run.msg)
  /\ run' = [run EXCEPT !.pc = "round"]
  /\ UNCHANGED <<queues, live, rows, handlers, accepted, history, mishaps, bounds>>

(* A store call before or in RunChat fails: the run returns. *)
StartFails ==
  /\ run.pc = "start"
  /\ bounds.faults < MaxFaults
  /\ bounds' = [bounds EXCEPT !.faults = @ + 1]
  /\ run' = [run EXCEPT !.pc = "ending"]
  /\ mishaps' = mishaps \cup {"fault"}
  /\ UNCHANGED <<queues, live, rows, transcript, handlers, accepted, sent, history>>

(* Between rounds the agent takes every steered message at once ... *)
SteerDrain ==
  /\ run.pc = "round"
  /\ queues[live].steers # <<>>
  /\ run' = [run EXCEPT !.pc = "inject",
                        !.batch = [i \in DOMAIN queues[live].steers |->
                                     queues[live].steers[i].msg]]
  /\ Write(live, NoSteers(queues[live]))
  /\ UNCHANGED <<live, transcript, handlers, accepted, sent, history, mishaps, bounds>>

(* ... and records them one by one. *)
Inject ==
  /\ run.pc = "inject"
  /\ transcript' = Append(transcript, Head(run.batch))
  /\ sent' = SentOnceMore(Head(run.batch))
  /\ run' = [run EXCEPT !.batch = Tail(@),
                        !.pc = IF Len(run.batch) = 1 THEN "round" ELSE "inject"]
  /\ UNCHANGED <<queues, live, rows, handlers, accepted, history, mishaps, bounds>>

(* A bug to catch: the messages behind the failed one are put back, that one
   is not. *)
InjectFailsSkips ==
  /\ run.pc = "inject"
  /\ bounds.faults < MaxFaults
  /\ bounds' = [bounds EXCEPT !.faults = @ + 1]
  /\ run' = [run EXCEPT !.batch = Tail(@),
                        !.pc = IF Len(run.batch) = 1 THEN "ending" ELSE "requeue"]
  /\ UNCHANGED <<queues, live, rows, transcript, handlers, accepted, sent, history, mishaps>>

(* AddInjectedMessage fails: that message and all behind it go back ... *)
InjectFails ==
  /\ run.pc = "inject"
  /\ bounds.faults < MaxFaults
  /\ bounds' = [bounds EXCEPT !.faults = @ + 1]
  /\ run' = [run EXCEPT !.pc = "requeue"]
  /\ UNCHANGED <<queues, live, rows, transcript, handlers, accepted, sent, history, mishaps>>

(* ... one q.add each, and the turn fails. *)
Requeue ==
  /\ run.pc = "requeue"
  /\ Write(live, Add(queues[live], NewID, Head(run.batch)))
  /\ run' = [run EXCEPT !.batch = Tail(@),
                        !.pc = IF Len(run.batch) = 1 THEN "ending" ELSE "requeue"]
  /\ UNCHANGED <<live, transcript, handlers, accepted, sent, history, mishaps, bounds>>

(* The turn succeeds.  A continued one is merged into the partial reply it
   continued, and from then on counts as a re-run of what is there. *)
TurnOK ==
  /\ run.pc = "round"
  /\ \/ run' = [run EXCEPT !.pc = "done"]
     \/ run.mode = "continue" /\ run' = [run EXCEPT !.pc = "done", !.mode = "redo"]
  /\ UNCHANGED <<queues, live, rows, transcript, handlers, accepted, sent, history,
                 mishaps, bounds>>

(* The turn fails or is cancelled: the run returns, its queue stays in the rows. *)
TurnFail ==
  /\ run.pc = "round"
  /\ run' = [run EXCEPT !.pc = "ending"]
  /\ UNCHANGED <<queues, live, rows, transcript, handlers, accepted, sent, history,
                 mishaps, bounds>>

(* drain: everything but the held messages leaves the queue, for the locals of
   the goroutine; an empty queue is not written. *)
Drain ==
  LET out == Drained(queues[live]) IN
  /\ run.pc = "done"
  /\ IF Queued(queues[live]) = {}
       THEN UNCHANGED <<queues, rows>>
       ELSE Write(live, Kept(queues[live]))
  /\ run' = [run EXCEPT !.batch = [i \in DOMAIN out |-> out[i].msg],
                        !.pc = CASE Len(out) = 0 -> "checkHeld"
                                 [] Len(out) = 1 -> "follow"
                                 [] OTHER -> "readd"]
  /\ UNCHANGED <<live, transcript, handlers, accepted, sent, history, mishaps, bounds>>

(* A bug to catch: the loop puts back msgs, not msgs[1:]. *)
ReAddFirstToo ==
  /\ run.pc = "readd"
  /\ Write(live, Add(queues[live], NewID, run.batch[Len(run.batch) - 1]))
  /\ run' = [run EXCEPT !.batch = RemoveAt(@, Len(@)),
                        !.pc = IF Len(run.batch) = 2 THEN "follow" ELSE "readd"]
  /\ UNCHANGED <<live, transcript, handlers, accepted, sent, history, mishaps, bounds>>

(* All but the first go back to the tail of the queue, each under a new id. *)
ReAdd ==
  /\ run.pc = "readd"
  /\ Write(live, Add(queues[live], NewID, run.batch[2]))
  /\ run' = [run EXCEPT !.batch = RemoveAt(@, 2),
                        !.pc = IF Len(run.batch) = 2 THEN "follow" ELSE "readd"]
  /\ UNCHANGED <<live, transcript, handlers, accepted, sent, history, mishaps, bounds>>

(* The first becomes the next turn, its row already in the transcript. *)
Follow ==
  /\ run.pc = "follow"
  /\ transcript' = Append(transcript, Head(run.batch))
  /\ run' = [pc |-> "start", msg |-> Head(run.batch), mode |-> "redo",
             upto |-> Len(transcript) + 1, batch |-> <<>>]
  /\ UNCHANGED <<queues, live, rows, handlers, accepted, sent, history, mishaps, bounds>>

(* AddUserMessage fails: the run returns with the message in a local. *)
FollowFails ==
  /\ run.pc = "follow"
  /\ bounds.faults < MaxFaults
  /\ bounds' = [bounds EXCEPT !.faults = @ + 1]
  /\ run' = [run EXCEPT !.pc = "ending", !.batch = <<>>]
  /\ mishaps' = mishaps \cup {"fault"}
  /\ UNCHANGED <<queues, live, rows, transcript, handlers, accepted, sent, history>>

(* Nothing to run: wait for the messages being edited, or return. *)
CheckHeld ==
  /\ run.pc = "checkHeld"
  /\ run' = [run EXCEPT !.pc = IF AnyHeld(queues[live]) THEN "held" ELSE "ending"]
  /\ UNCHANGED <<queues, live, rows, transcript, handlers, accepted, sent, history,
                 mishaps, bounds>>

(* No message is held any more: `continue` runs RunChat with the params of the
   turn that is over, and drains after it. *)
HeldOver ==
  /\ run.pc = "held"
  /\ ~AnyHeld(queues[live])
  /\ bounds.reruns < MaxReruns
  /\ bounds' = [bounds EXCEPT !.reruns = @ + 1]
  /\ run' = [run EXCEPT !.pc = "start"]
  /\ UNCHANGED <<queues, live, rows, transcript, handlers, accepted, sent, history, mishaps>>

(* The wait ends with the run's context. *)
HeldStop ==
  /\ run.pc = "held"
  /\ run' = [run EXCEPT !.pc = "ending"]
  /\ UNCHANGED <<queues, live, rows, transcript, handlers, accepted, sent, history,
                 mishaps, bounds>>

(* The deferred end. *)
End ==
  /\ run.pc = "ending"
  /\ live' = None
  /\ run' = Idle
  /\ queues' = Collected(queues, None, handlers)
  /\ UNCHANGED <<rows, transcript, handlers, accepted, sent, history, mishaps, bounds>>

RunStep ==
  \/ Start \/ StartFails \/ SteerDrain \/ Inject \/ InjectFails \/ Requeue
  \/ TurnOK \/ TurnFail \/ Drain \/ ReAdd \/ Follow \/ FollowFails
  \/ CheckHeld \/ HeldOver \/ HeldStop \/ End
-----------------------------------------------------------------------------
(* What the session's queue is: the live run's, or what the rows say. *)
Current == IF live # None THEN queues[live] ELSE Hydrate(rows)

(* The ids a client can name: it reads them from the queue's list. *)
Requests ==
  LET ids == [i \in DOMAIN Current.pending |-> Current.pending[i].id] IN
  {[op |-> op, arg |-> <<id>>] : op \in Ops \cap {"remove", "hold", "release", "steer"},
                                 id \in ToSet(ids)}
  \cup {[op |-> op, arg |-> Reverse(ids)] : op \in Ops \cap {"reorder"}}

(* queueFor, first half: the live run's queue, or go on to the rows. *)
QueueFor(h) ==
  /\ handlers[h].pc = "free"
  /\ \E request \in Requests :
       handlers' = [handlers EXCEPT ![h] =
         [Free EXCEPT !.pc = IF live # None THEN "apply" ELSE "load",
                      !.ref = live, !.op = request.op, !.arg = request.arg]]
  /\ UNCHANGED <<queues, live, rows, run, transcript, accepted, sent, history,
                 mishaps, bounds>>

(* queueFor, second half: an object of the request's own. *)
QueueLoad(h) ==
  /\ handlers[h].pc = "load"
  /\ queues' = [queues EXCEPT ![NewQueue] = Hydrate(rows)]
  /\ handlers' = [handlers EXCEPT ![h].pc = "apply", ![h].ref = NewQueue]
  /\ UNCHANGED <<live, rows, run, transcript, accepted, sent, history, mishaps, bounds>>

(* The method finds what the request names, and its result. *)
Applies(q, op, arg) == IF op = "reorder" THEN IsReorder(q, arg) ELSE arg[1] \in Ids(q.pending)

(* A bug to catch: a steered message stays among the follow-ups. *)
AppliedSteerCopies(q, op, arg) ==
  CASE op = "remove"  -> RemoveId(q, arg[1])
    [] op = "hold"    -> SetHeld(q, arg[1], TRUE)
    [] op = "release" -> SetHeld(q, arg[1], FALSE)
    [] op = "steer"   -> [q EXCEPT !.steers = SteerId(q, arg[1]).steers]
    [] op = "reorder" -> Reorder(q, arg)

Applied(q, op, arg) ==
  CASE op = "remove"  -> RemoveId(q, arg[1])
    [] op = "hold"    -> SetHeld(q, arg[1], TRUE)
    [] op = "release" -> SetHeld(q, arg[1], FALSE)
    [] op = "steer"   -> SteerId(q, arg[1])
    [] op = "reorder" -> Reorder(q, arg)

(* A write through an object that is not the live run's overlaps with another
   writer when a run is live, or when the rows changed since the load. *)
Overlaps(q) == q # live /\ (live # None \/ Hydrate(rows) # Hydrate(Snapshot(queues[q])))

(* The method, on the object queueFor returned, live or not. *)
QueueApply(h) ==
  LET q == handlers[h].ref
      op == handlers[h].op
      arg == handlers[h].arg
      msg == CHOOSE m \in Messages :
               \E i \in DOMAIN queues[q].pending : queues[q].pending[i] =
                 [id |-> arg[1], msg |-> m, held |-> queues[q].pending[i].held]
      kept == [handlers EXCEPT ![h] = Free]
  IN
  /\ handlers[h].pc = "apply"
  /\ handlers' = kept
  /\ IF Applies(queues[q], op, arg)
       THEN /\ rows' = Snapshot(Applied(queues[q], op, arg))
            /\ queues' = Collected([queues EXCEPT ![q] = Applied(@, op, arg)], live, kept)
            /\ deleted' = deleted \cup {m \in Messages : op = "remove" /\ m = msg}
            /\ editing' = CASE op = "hold" -> editing \cup {msg}
                             [] op = "reorder" -> editing
                             [] OTHER -> editing \ {msg}
            /\ mishaps' = mishaps \cup (IF Overlaps(q) THEN {"overlap"} ELSE {})
       ELSE /\ queues' = Collected(queues, live, kept)
            /\ UNCHANGED <<rows, history, mishaps>>
  /\ UNCHANGED <<live, run, transcript, accepted, sent, bounds>>
-----------------------------------------------------------------------------
(* handleChatQueueResume: nothing to do while a run is active. *)
ResumeIdle(h) ==
  /\ handlers[h].pc = "free" /\ "resume" \in Ops
  /\ live = None /\ bounds.resumes < MaxResumes
  /\ bounds' = [bounds EXCEPT !.resumes = @ + 1]
  /\ handlers' = [handlers EXCEPT ![h] = [Free EXCEPT !.pc = "list", !.op = "resume"]]
  /\ UNCHANGED <<queues, live, rows, run, transcript, accepted, sent, history, mishaps>>

(* The first row that is neither steered nor held is the one to start. *)
ResumeList(h) ==
  LET waiting == Select(rows, LAMBDA r : ~r.steer /\ ~r.held) IN
  /\ handlers[h].pc = "list"
  /\ handlers' = [handlers EXCEPT ![h] =
       IF waiting = <<>> THEN Free
                         ELSE [@ EXCEPT !.pc = "delete", !.pick = Head(waiting)]]
  /\ UNCHANGED <<queues, live, rows, run, transcript, accepted, sent, history,
                 mishaps, bounds>>

(* Its row is deleted, whether or not it is there and as it was. *)
ResumeDelete(h) ==
  LET pick == handlers[h].pick
      same == \E i \in DOMAIN rows :
                /\ rows[i].id = pick.id
                /\ rows[i].steer = pick.steer /\ rows[i].held = pick.held
  IN
  /\ handlers[h].pc = "delete"
  /\ rows' = DeleteRow(rows, pick.id)
  /\ handlers' = [handlers EXCEPT ![h].pc = "begin"]
  /\ mishaps' = mishaps \cup (IF live # None \/ ~same THEN {"overlap"} ELSE {})
  /\ UNCHANGED <<queues, live, run, transcript, accepted, sent, history, bounds>>

(* beginOrQueue: the row's message starts a run ... *)
ResumeBegins(h) ==
  /\ handlers[h].pc = "begin"
  /\ BeginRun(NewTurn(handlers[h].pick.msg))
  /\ handlers' = [handlers EXCEPT ![h] = Free]
  /\ UNCHANGED <<rows, transcript, accepted, sent, history, mishaps, bounds>>

(* ... or, a run being active now, is queued onto it like a new message ... *)
ResumeQueues(h) ==
  /\ handlers[h].pc = "begin"
  /\ live # None
  /\ Write(live, Add(queues[live], NewID, handlers[h].pick.msg))
  /\ handlers' = [handlers EXCEPT ![h].pc = "restore"]
  /\ mishaps' = mishaps \cup {"overlap"}
  /\ UNCHANGED <<live, run, transcript, accepted, sent, history, bounds>>

(* ... or the per-user cap refuses the run. *)
ResumeRefused(h) ==
  /\ handlers[h].pc = "begin"
  /\ live = None
  /\ handlers' = [handlers EXCEPT ![h].pc = "restore"]
  /\ UNCHANGED <<queues, live, rows, run, transcript, accepted, sent, history,
                 mishaps, bounds>>

(* Whenever no run was started the row is put back. *)
ResumeRestore(h) ==
  /\ handlers[h].pc = "restore"
  /\ rows' \in InsertedRow(rows, handlers[h].pick)
  /\ handlers' = [handlers EXCEPT ![h] = Free]
  /\ mishaps' = mishaps \cup (IF live # None THEN {"overlap"} ELSE {})
  /\ UNCHANGED <<queues, live, run, transcript, accepted, sent, history, bounds>>

ResumeStep(h) ==
  \/ ResumeIdle(h) \/ ResumeList(h) \/ ResumeDelete(h) \/ ResumeBegins(h)
  \/ ResumeQueues(h) \/ ResumeRefused(h) \/ ResumeRestore(h)
-----------------------------------------------------------------------------
(* handleChatRetry reads the last user row, injected or not ... *)
RetryRead(h) ==
  /\ handlers[h].pc = "free" /\ "retry" \in Ops
  /\ transcript # <<>>
  /\ handlers' = [handlers EXCEPT ![h] =
       [Free EXCEPT !.pc = "retry", !.op = "retry", !.arg = transcript]]
  /\ UNCHANGED <<queues, live, rows, run, transcript, accepted, sent, history,
                 mishaps, bounds>>

(* ... and re-runs it, or continues the partial reply to it: user rows newer
   than the one it read are cut.  While a run is active it answers run_active. *)
RetryBegins(h) ==
  LET seen == handlers[h].arg IN
  /\ handlers[h].pc = "retry"
  /\ handlers' = [handlers EXCEPT ![h] = Free]
  /\ \E mode \in {"redo", "continue"} :
       BeginRun([Idle EXCEPT !.pc = "start", !.msg = Last(seen), !.mode = mode,
                             !.upto = Len(LongestCommonPrefix({seen, transcript}))])
  /\ sent' = [sent EXCEPT ![Last(seen)] = 0]
  /\ mishaps' = mishaps \cup (IF seen # transcript THEN {"overlap"} ELSE {})
  /\ UNCHANGED <<rows, transcript, accepted, history, bounds>>

RetryRefused(h) ==
  /\ handlers[h].pc = "retry"
  /\ live # None
  /\ handlers' = [handlers EXCEPT ![h] = Free]
  /\ UNCHANGED <<queues, live, rows, run, transcript, accepted, sent, history,
                 mishaps, bounds>>

(* Messages a restart would lose: accepted, and only in memory. *)
InMemoryOnly ==
  {m \in 1 .. accepted : m \notin deleted \cup ToSet(transcript) \cup Msgs(rows)}

(* The server stops and starts again: what is left is the store. *)
Crash ==
  /\ bounds.crashes < MaxCrashes
  /\ bounds' = [bounds EXCEPT !.crashes = @ + 1]
  /\ live' = None
  /\ run' = Idle
  /\ queues' = [q \in QueueIds |-> EmptyQueue]
  /\ handlers' = [h \in Handlers |-> Free]
  /\ mishaps' = mishaps \cup (IF InMemoryOnly # {} THEN {"crash"} ELSE {})
  /\ UNCHANGED <<rows, transcript, accepted, sent, history>>

Next ==
  \/ SendQueued \/ SendStarts \/ RunStep \/ Crash
  \/ \E h \in Handlers :
       \/ QueueFor(h) \/ QueueLoad(h) \/ QueueApply(h)
       \/ ResumeStep(h)
       \/ RetryRead(h) \/ RetryBegins(h) \/ RetryRefused(h)

Spec == Init /\ [][Next]_vars
-----------------------------------------------------------------------------
(* The rows mirror the live run's queue at every step of every interleaving, so
   that whatever ends the run, the next one starts with what was waiting: no
   method forgets its write, as long as nobody writes through a stale object. *)
StoreMirrorsQueue ==
  live # None /\ "overlap" \notin mishaps =>
    Hydrate(rows) = Hydrate(Snapshot(queues[live]))

(* Where an accepted message can be: in the transcript, waiting, taken out of
   the queue by the goroutine or by a resume. *)
Somewhere ==
  ToSet(transcript) \cup Msgs(rows) \cup ToSet(run.batch)
  \cup {run.msg : p \in {run.pc} \cap {"start"}}
  \cup {handlers[h].pick.msg : h \in {g \in Handlers : handlers[g].pc \in {"begin", "restore"}}}

(* A message the server accepted and nobody deleted is never dropped: it is in
   the transcript or still on its way there.  The excuses are a restart while
   it was in memory only, a failed write of its row, a stale writer, and the
   re-run after a held wait, which cuts the transcript at its turn. *)
NothingLost ==
  mishaps = {} /\ bounds.reruns = 0 =>
    \A m \in 1 .. accepted : m \in deleted \cup Somewhere

(* A message is given to the model once per request for it, as a turn or by
   injection, however sends, steers, failures, resumes and restarts fall. *)
SentOnce == \A m \in Messages : sent[m] <= 1
NeverSentTwice == "overlap" \notin mishaps /\ bounds.reruns = 0 => SentOnce

(* A queued message a delete found and removed is gone for good: it is never
   sent, and no snapshot or restart brings it back. *)
DeletedStaysDeleted ==
  "overlap" \notin mishaps =>
    \A m \in deleted : sent[m] = 0 /\ m \notin Somewhere

(* An in-progress edit is never sent: from the hold to the release or the steer
   that ends it, over the end of the run, restarts and resumes, the message
   stays held in the queue. *)
EditingIsHeld ==
  "overlap" \notin mishaps =>
    \A m \in editing :
      \E i \in DOMAIN Current.pending :
        Current.pending[i].msg = m /\ IsHeld(Current.pending[i])

(* "They process in order as follow-up turns": the message about to become a
   turn is the oldest that waits. *)
FollowUpsInOrder ==
  run.pc = "follow" =>
    \A i \in DOMAIN queues[live].pending : Head(run.batch) < queues[live].pending[i].msg
=============================================================================
