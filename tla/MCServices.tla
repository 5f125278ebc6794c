----------------------------- MODULE MCServices -----------------------------
(***************************************************************************)
(* One turn of the built-in loop and what it waits for, for TLC: detached  *)
(* commands, questions to the user, and the model's answers.  They share   *)
(* no variable, so a behaviour is one of one part; part says of which, and *)
(* the others stay as they began.                                          *)
(***************************************************************************)
EXTENDS Naturals, Sequences

CONSTANTS
  Jobs, Sessions, Asks, Texts, Responders, chatRetries, MaxPieces,
  MaxCalls, MaxResumes, MaxJoined

(* A call makes at least one request. *)
ASSUME ServicesAssumption == chatRetries \in Nat \ {0} /\ MaxPieces \in Nat
ASSUME LoopAssumption == {MaxCalls, MaxResumes, MaxJoined} \subseteq Nat

VARIABLES
  part,
  phase, of, up, piped, listed, timedOut, cancelled, row, told, doomed, cancelling, turn, alive,
  asking, text, step, pendingRow, reqs, ch, outcome, posting, askCache, asksTurn, asksStop,
  at, attempt, posts, refused, sent, ended, producer, held, taken, stopped, bodyClosed, shown,
  calls, gatewayError, result, left,
  rows, history, place, toRun, modelCalls, partial, kept, partialStart, resumes, truncations,
  ponders, saved, strippable, joined, landed, streamed, abandoned, scarred, how

Detached == INSTANCE Background
Questions == INSTANCE Ask WITH turn <- asksTurn, cancelled <- asksStop
Model == INSTANCE ModelCall
Loop == INSTANCE AgentLoop WITH at <- place, calls <- toRun

jobsVars ==
  <<phase, of, up, piped, listed, timedOut, cancelled, row, told, doomed, cancelling, turn, alive>>
asksVars ==
  <<asking, text, step, pendingRow, reqs, ch, outcome, posting, askCache, asksTurn, asksStop>>
callVars ==
  <<at, attempt, posts, refused, sent, ended, producer, held, taken, stopped, bodyClosed, shown,
    calls, gatewayError, result, left>>
loopVars ==
  <<rows, history, place, toRun, modelCalls, partial, kept, partialStart, resumes, truncations,
    ponders, saved, strippable, joined, landed, streamed, abandoned, scarred, how>>
vars == <<part, jobsVars, asksVars, callVars, loopVars>>

(* A part that does not run begins in one way. *)
PartsInit ==
  /\ part \in {"jobs", "asks", "model", "loop"}
  /\ Detached!Init /\ Questions!Init /\ Model!Init /\ Loop!Init
  /\ strippable <=> Len(rows) = 8
  /\ part # "loop" => strippable

InJobs(A) == part = "jobs" /\ A /\ UNCHANGED <<part, asksVars, callVars, loopVars>>
InAsks(A) == part = "asks" /\ A /\ UNCHANGED <<part, jobsVars, callVars, loopVars>>
InModel(A) == part = "model" /\ A /\ UNCHANGED <<part, jobsVars, asksVars, loopVars>>
InLoop(A) == part = "loop" /\ A /\ UNCHANGED <<part, jobsVars, asksVars, callVars>>

PartsNext ==
  InJobs(Detached!Next) \/ InAsks(Questions!Next) \/ InModel(Model!Next) \/ InLoop(Loop!Next)

(* The fairness of each part. *)
PartsFairness ==
  /\ \A j \in Jobs :
       /\ WF_vars(InJobs(Detached!Lists(j)))
       /\ WF_vars(InJobs(Detached!WaitReturns(j))) /\ WF_vars(InJobs(Detached!CloseDone(j)))
       /\ WF_vars(InJobs(Detached!Notify(j)))
  /\ WF_vars(InJobs(Detached!KillSurvivors)) /\ WF_vars(InJobs(Detached!CancelMarks))
  /\ \A q \in Asks :
       /\ WF_vars(InAsks(Questions!Register(q))) /\ WF_vars(InAsks(Questions!Select(q)))
       /\ WF_vars(InAsks(Questions!Return(q)))
  /\ \A h \in Responders : WF_vars(InAsks(Questions!Resolve(h)))
  /\ WF_vars(InModel(Model!WaitBackoff)) /\ WF_vars(InModel(Model!Asked))
  /\ WF_vars(InModel(Model!Stalls)) /\ WF_vars(InModel(Model!BodyRead))
  /\ WF_vars(InModel(Model!ProducerStops)) /\ WF_vars(InModel(Model!Handle))
  /\ WF_vars(InModel(Model!ScanEnds)) /\ WF_vars(InModel(Model!ScanFails))

PartsSpec == PartsInit /\ [][PartsNext]_vars /\ PartsFairness

(* Where the exploration of the loop stops (the invariants are checked up to there and
   at it): the last call of the model has no message or row that joined the turn. *)
Explored == part = "loop" /\ modelCalls = MaxCalls => joined + landed.written = 0

(* BackgroundManager: a command that runs can be found, or will be as soon as Start has
   listed it; one handed out has ended. *)
UpIsListed == part = "jobs" => Detached!TypeOK /\ Detached!UpIsListed

(* turnAsk: while a turn runs, the card is of the question that waits. *)
NoStaleCard == part = "asks" => Questions!TypeOK /\ Questions!NoStaleCard

(* ChatStream: what a call shows is of one response, in order and whole when it
   succeeds, whichever requests failed before; a broken stream invents nothing. *)
StreamHolds ==
  part = "model" => /\ Model!TypeOK /\ Model!ShownOnce /\ Model!NothingInvented
                    /\ Model!RequestsBounded

(* RunChat: the rows of a turn that answered are what the user saw. *)
AnswerIsStored == part = "loop" => Loop!AnswerIsStored

(* protocolSafeHistory and compactHistory: a round's calls and results stay
   together in the rows, in the view, and in what is sent of it. *)
RoundsStay == part = "loop" => Loop!TypeOK /\ Loop!RoundsIntact /\ Loop!CompactionKeepsPairs

(* resumeFrom: nothing the turn wrote leaves the model's view. *)
NothingSliced == part = "loop" => Loop!NothingSliced

(* killProcessGroups, turnAsk and resolve, stallReader: a command that was cancelled
   or stopped ends, if no child out of reach holds its output; the tool that asks returns, and every responder; a call of a model
   returns, and its producer ends. *)
WaitsEnd ==
  /\ Detached!DoomedEnds /\ Questions!EveryAskReturns /\ Questions!EveryPostReturns
  /\ part = "model" ~> at = "returned"
  /\ Model!ProducerEnds
=============================================================================
