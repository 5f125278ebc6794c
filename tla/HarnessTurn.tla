----------------------------- MODULE HarnessTurn -----------------------------
(***************************************************************************)
(* One turn on the sidecar: submit and the loop of consumeHarnessTurn      *)
(* (internal/server/harness_chat.go), the EventQueue between the bridge's  *)
(* read loop and it (internal/harness/bridge.go), the sidecar's run, the   *)
(* user's stop and the messages steered in.                                *)
(*                                                                         *)
(* A round's text is a sequence of pieces.  The client shows a list of     *)
(* rounds, the last of them still open while pieces stream.                *)
(***************************************************************************)
EXTENDS Naturals, Sequences, SequencesExt

CONSTANTS
  Steers,      (* messages the user steers in                              *)
  Pieces,      (* pieces of text                                           *)
  MaxEvents    (* bound: events of the run                                 *)

VARIABLES
  sidecar,     (* its run: none, running, over, aborted, or the process is dead *)
  emitted,     (* events emitted so far                                    *)
  live,        (* the text it has streamed of its current round            *)
  pushing,     (* Push has appended a batch and not yet sent its token     *)
  items,       (* EventQueue.items                                         *)
  wake,        (* a token is in EventQueue.wake                            *)
  at,          (* where the turn is                                        *)
  batch,       (* the events Drain returned and the loop has yet to handle *)
  done,        (* run_end was among them                                   *)
  text,        (* text                                                     *)
  shown,       (* the rounds the client shows                              *)
  open,        (* the client's last round is still streaming               *)
  saved,       (* the assistant rows                                       *)
  stopped,     (* the turn's context is cancelled                          *)
  toSteer,     (* what params.Steer would return                           *)
  taken,       (* the messages pollSteer has yet to send                   *)
  heard,       (* messages the sidecar has taken                           *)
  storeFailed, (* a row could not be written                               *)
  abortSent    (* the sidecar was told to abort                            *)

sideVars == <<sidecar, emitted, live>>
queueVars == <<pushing, items, wake>>
textVars == <<text, shown, open, saved, storeFailed>>
steerVars == <<toSteer, taken, heard>>
loopVars == <<at, batch, done>>
turnVars == <<sideVars, queueVars, textVars, steerVars, loopVars, stopped, abortSent>>

Texts == UNION {[1 .. n -> Pieces] : n \in 0 .. 2}
Events == ({"delta"} \X Pieces) \cup ({"commit", "failed"} \X Texts)
          \cup ({"fault", "end"} \X {<<>>})

TypeOK ==
  /\ sidecar \in {"none", "running", "over", "aborted", "dead"}
  /\ emitted \in 0 .. MaxEvents /\ live \in Texts
  /\ items \in Seq(Events) /\ batch \in Seq(Events)
  /\ at \in {"submit", "poll", "drain", "empty", "wait", "batch", "finishing", "aborting", "returned"}
  /\ text \in Seq(Pieces) /\ shown \in Seq(Seq(Pieces)) /\ saved \in Seq(Seq(Pieces))
  /\ {pushing, wake, done, open, stopped, storeFailed, abortSent} \subseteq BOOLEAN
  /\ {toSteer, heard} \subseteq SUBSET Steers /\ taken \in Seq(Steers)

Init ==
  /\ sidecar = "none" /\ emitted = 0 /\ live = <<>>
  /\ pushing = FALSE /\ items = <<>> /\ wake = FALSE
  /\ at = "submit" /\ batch = <<>> /\ done = FALSE
  /\ text = <<>> /\ shown = <<>> /\ open = FALSE /\ saved = <<>> /\ storeFailed = FALSE
  /\ toSteer = Steers /\ taken = <<>> /\ heard = {}
  /\ stopped = FALSE /\ abortSent = FALSE
-----------------------------------------------------------------------------
(* The sidecar.  A batch is one event here; Drain returns several. *)
Push(ev) ==
  /\ sidecar = "running" /\ emitted < MaxEvents /\ ~pushing
  /\ emitted' = emitted + 1
  /\ items' = Append(items, ev)
  /\ pushing' = TRUE
  /\ UNCHANGED <<wake, textVars, steerVars, loopVars, stopped, abortSent>>

Token == TRUE

(* EventQueue.Push, after the lock. *)
PushWake ==
  /\ pushing
  /\ pushing' = FALSE
  /\ wake' = (wake \/ Token)
  /\ UNCHANGED <<sideVars, items, textVars, steerVars, loopVars, stopped, abortSent>>

(* The run streams a piece; it commits the round, with what it streamed, more
   of it, or a text written again after a retry; the commit may say that the
   model call failed; the task faults; the run ends. *)
Stream ==
  \E p \in Pieces :
    /\ Len(live) < 2
    /\ Push(<<"delta", p>>)
    /\ live' = Append(live, p)
    /\ UNCHANGED sidecar

Commit ==
  \E t \in Texts, kind \in {"commit", "failed"} :
    /\ Push(<<kind, t>>)
    /\ live' = <<>>
    /\ sidecar' = IF kind = "failed" THEN "over" ELSE "running"

RunEnds ==
  \E kind \in {"fault", "end"} :
    /\ Push(<<kind, <<>>>>)
    /\ sidecar' = "over"
    /\ UNCHANGED live

(* The process dies: the connection ends, the queue stays open. *)
Dies ==
  /\ sidecar # "dead"
  /\ sidecar' = "dead"
  /\ UNCHANGED <<emitted, live, queueVars, textVars, steerVars, loopVars, stopped, abortSent>>

(* The user stops the turn. *)
Stop ==
  /\ ~stopped /\ at # "returned"
  /\ stopped' = TRUE
  /\ UNCHANGED <<sideVars, queueVars, textVars, steerVars, loopVars, abortSent>>
-----------------------------------------------------------------------------
(* Submit: the run starts, and the call returns; or it fails, with the sidecar
   or before it. *)
Submitted ==
  /\ at = "submit" /\ sidecar = "none"
  /\ sidecar' = "running"
  /\ at' = "poll"
  /\ UNCHANGED <<emitted, live, queueVars, textVars, steerVars, batch, done, stopped, abortSent>>

SubmitFails ==
  /\ at = "submit"
  /\ sidecar' \in {sidecar} \cup (IF stopped /\ sidecar = "none" THEN {"running"} ELSE {})
  /\ at' = "returned"
  /\ UNCHANGED <<emitted, live, queueVars, textVars, steerVars, batch, done, stopped, abortSent>>

(* pollSteer drains the queue ... *)
TakeSteers ==
  /\ at = "poll" /\ taken = <<>>
  /\ \E s \in SetToSeqs(toSteer) : taken' = s
  /\ toSteer' = {}
  /\ at' = IF toSteer = {} THEN "drain" ELSE "poll"
  /\ UNCHANGED <<sideVars, queueVars, textVars, heard, batch, done, stopped, abortSent>>

(* ... hands over each message: it becomes a row, or only an event when the row
   cannot be written ... *)
SteerSent ==
  /\ at = "poll" /\ taken # <<>> /\ sidecar \in {"running", "over"}
  /\ heard' = heard \cup {Head(taken)}
  /\ taken' = Tail(taken)
  /\ at' = IF Len(taken) = 1 THEN "drain" ELSE "poll"
  /\ UNCHANGED <<sideVars, queueVars, textVars, toSteer, batch, done, stopped, abortSent>>

Requeue(m) == toSteer' = toSteer \cup {m}

(* ... and back into the queue when the call fails, which a stop makes it do
   whether the sidecar had taken it or not. *)
SteerFails ==
  /\ at = "poll" /\ taken # <<>>
  /\ Requeue(Head(taken))
  /\ heard' \in {heard, heard \cup {Head(taken)}}
  /\ sidecar = "dead" => heard' = heard
  /\ taken' = Tail(taken)
  /\ at' = IF Len(taken) = 1 THEN "drain" ELSE "poll"
  /\ UNCHANGED <<sideVars, queueVars, textVars, batch, done, stopped, abortSent>>
-----------------------------------------------------------------------------
(* Drain: what is there at once, seen under the lock; the wait begins after it,
   and ends ... *)
DrainItems ==
  /\ at = "drain" /\ items # <<>>
  /\ batch' = items /\ items' = <<>>
  /\ at' = "batch"
  /\ UNCHANGED <<sideVars, pushing, wake, textVars, steerVars, done, stopped, abortSent>>

DrainEmpty ==
  /\ at = "drain" /\ items = <<>>
  /\ at' = "empty"
  /\ UNCHANGED <<sideVars, queueVars, textVars, steerVars, batch, done, stopped, abortSent>>

DrainWaits ==
  /\ at = "empty"
  /\ at' = "wait"
  /\ UNCHANGED <<sideVars, queueVars, textVars, steerVars, batch, done, stopped, abortSent>>

AfterTimeout == IF stopped THEN "aborting" ELSE "poll"

(* ... with the token, the 250 ms or the stop. *)
Woken ==
  /\ at = "wait" /\ wake
  /\ wake' = FALSE
  /\ at' = "drain"
  /\ UNCHANGED <<sideVars, pushing, items, textVars, steerVars, batch, done, stopped, abortSent>>

TimedOut ==
  /\ at = "wait"
  /\ at' = AfterTimeout
  /\ UNCHANGED <<sideVars, queueVars, textVars, steerVars, batch, done, stopped, abortSent>>
-----------------------------------------------------------------------------
(* What the client shows of the open round. *)
Streamed == IF open THEN Last(shown) ELSE <<>>

(* A bug to catch: a text written again is sent after the one that streamed. *)
ReconcileAppend(t) == IF t = text THEN Streamed ELSE Streamed \o t

(* reconcile: the client gets the tail that is missing, or the whole text in
   place of one that the commit does not extend. *)
Reconcile(t) ==
  IF IsPrefix(text, t) THEN Streamed \o SubSeq(t, Len(text) + 1, Len(t))
  ELSE IF t = <<>> THEN Streamed ELSE t

(* persist: what the round has becomes a row, unless there is nothing. *)
Persist(round) ==
  /\ text' = <<>>
  /\ open' = FALSE
  /\ IF round = <<>>
       THEN UNCHANGED <<saved, storeFailed>>
       ELSE \/ saved' = Append(saved, round) /\ UNCHANGED storeFailed
            \/ storeFailed' = TRUE /\ UNCHANGED saved

(* The client shows round as its last one. *)
Show(round) ==
  shown' = IF round = <<>> THEN shown
           ELSE IF open THEN [shown EXCEPT ![Len(shown)] = round]
           ELSE Append(shown, round)

NextEvent(kind) ==
  /\ at = "batch" /\ batch # <<>> /\ Head(batch)[1] = kind
  /\ batch' = Tail(batch)

(* message_update *)
OnDelta ==
  /\ NextEvent("delta")
  /\ text' = Append(text, Head(batch)[2])
  /\ open' = TRUE
  /\ Show(Append(Streamed, Head(batch)[2]))
  /\ UNCHANGED <<saved, storeFailed, sideVars, queueVars, steerVars, at, done, stopped, abortSent>>

(* message_end.  A failure that was committed ends the turn once the row is
   written, and so does a row that cannot be. *)
OnCommit ==
  /\ NextEvent("commit") \/ NextEvent("failed")
  /\ LET t == Head(batch)[2]
     IN Persist(IF t = <<>> THEN text ELSE t) /\ Show(Reconcile(t))
  /\ at' = IF Head(batch)[1] = "failed" \/ storeFailed' # storeFailed
             THEN "returned" ELSE "batch"
  /\ UNCHANGED <<sideVars, queueVars, steerVars, done, stopped, abortSent>>

(* task_failed *)
OnFault ==
  /\ NextEvent("fault")
  /\ at' = "finishing"
  /\ UNCHANGED <<textVars, sideVars, queueVars, steerVars, done, stopped, abortSent>>

(* run_end: the rest of the batch is still handled. *)
OnRunEnd ==
  /\ NextEvent("end")
  /\ done' = TRUE
  /\ UNCHANGED <<at, textVars, sideVars, queueVars, steerVars, stopped, abortSent>>

(* A bug to catch: a run is taken to end with text. *)
AfterBatchWithText == IF done /\ text # <<>> THEN "finishing" ELSE "poll"
AfterBatch == IF done THEN "finishing" ELSE "poll"

BatchOver ==
  /\ at = "batch" /\ batch = <<>>
  /\ at' = AfterBatch
  /\ UNCHANGED <<batch, done, textVars, sideVars, queueVars, steerVars, stopped, abortSent>>

PersistPartial == Persist(text) /\ UNCHANGED shown

(* After the loop, or after a fault: what is left is written. *)
Finish ==
  /\ at = "finishing"
  /\ PersistPartial
  /\ at' = "returned"
  /\ UNCHANGED <<batch, done, sideVars, queueVars, steerVars, stopped, abortSent>>

(* Abort on a context of its own; it may fail. *)
Abort ==
  /\ abortSent' = TRUE
  /\ sidecar' \in {IF sidecar = "running" THEN "aborted" ELSE sidecar, sidecar}

(* The stopped turn aborts the sidecar's, and keeps the partial text. *)
Cancelled ==
  /\ at = "aborting"
  /\ Abort
  /\ PersistPartial
  /\ at' = "returned"
  /\ UNCHANGED <<batch, done, emitted, live, queueVars, steerVars, stopped>>

Loop ==
  \/ TakeSteers \/ SteerSent \/ SteerFails
  \/ DrainItems \/ DrainEmpty \/ DrainWaits \/ Woken \/ TimedOut
  \/ OnDelta \/ OnCommit \/ OnFault \/ OnRunEnd \/ BatchOver \/ Finish \/ Cancelled

Next ==
  \/ Stream \/ Commit \/ RunEnds \/ Dies \/ PushWake
  \/ Stop \/ Submitted \/ SubmitFails
  \/ Loop

Spec == Init /\ [][Next]_turnVars

(* The turn's goroutine runs, a timer fires, and a call returns; the store and
   the sidecar need not answer well. *)
Fairness == WF_turnVars(Loop) /\ WF_turnVars(Submitted \/ SubmitFails)

FairSpec == Spec /\ Fairness
-----------------------------------------------------------------------------
(* reconcile and persist: what the client was shown is what a reload shows, on
   every way a turn ends: a stop, a fault, a failed call, a rewritten round. *)
ShownIsStored == (at = "returned" /\ ~storeFailed) => saved = shown

(* pollSteer: a message taken from the queue is back in it or has reached the
   sidecar, also when the turn is stopped or the sidecar dies meanwhile. *)
SteerKept == Steers = toSteer \cup heard \cup Range(taken)

(* EventQueue: a loop that waits while events are queued has a token, or the
   push that queued them is about to leave one. *)
NoLostWakeup == (at \in {"empty", "wait"} /\ items # <<>>) => (wake \/ pushing)

(* The loop: a stop ends the turn, even on a sidecar that no longer answers. *)
StopReturns == stopped ~> at = "returned"

(* The stop of a running turn: when the stop returns it the sidecar was told. *)
RunEndReturns == (sidecar = "over") ~> (at = "returned" \/ sidecar = "dead")

(* "The stream ended -- the sidecar died" (harness_chat.go): a turn whose
   sidecar dies ends. *)
DeathReturns == (sidecar = "dead") ~> at = "returned"
=============================================================================
