----------------------------- MODULE MCHarness -----------------------------
(***************************************************************************)
(* The harness for TLC: the connection, one turn on it, and a session's    *)
(* transcripts over several turns.  They share no variable, so a behaviour *)
(* is one of one part; part says of which, and the others stay as they     *)
(* began.                                                                  *)
(***************************************************************************)
EXTENDS HarnessRPC

CONSTANTS Steers, Pieces, MaxEvents, TurnOps, MaxSent, MaxConvs, MaxTurns, MaxShots

(* The user steers in finitely many messages. *)
ASSUME HarnessAssumption == IsFiniteSet(Steers) /\ MaxEvents \in Nat
ASSUME TranscriptAssumption == {MaxSent, MaxConvs, MaxTurns} \subseteq Nat

VARIABLES
  part,
  sidecar, emitted, live, pushing, items, wake, at, batch, done, text, shown, open,
  saved, stopped, toSteer, taken, heard, storeFailed, abortSent,
  rows, convs, made, stored, sessions, stage, using, sending, sentMsgs, turns, straight

Turn == INSTANCE HarnessTurn
Transcript == INSTANCE HarnessTranscript

turnVars ==
  <<sidecar, emitted, live, pushing, items, wake, at, batch, done, text, shown, open,
    saved, stopped, toSteer, taken, heard, storeFailed, abortSent>>
transcriptVars ==
  <<rows, convs, made, stored, sessions, stage, using, sending, sentMsgs, turns, straight>>
vars == <<part, rpcVars, turnVars, transcriptVars>>

PartsInit ==
  /\ part \in {"connection", "turn", "transcript"}
  /\ Init /\ Turn!Init /\ Transcript!Init

InConnection(A) ==
  part = "connection" /\ A /\ UNCHANGED <<part, turnVars, transcriptVars>>
InTurn(A) ==
  part = "turn" /\ A /\ UNCHANGED <<part, rpcVars, transcriptVars>>
InTranscript(A) ==
  part = "transcript" /\ A /\ UNCHANGED <<part, rpcVars, turnVars>>

PartsNext == InConnection(Next) \/ InTurn(Turn!Next) \/ InTranscript(Transcript!Next)

(* The fairness of each part. *)
PartsFairness ==
  /\ WF_vars(InConnection(CloseChannel))
  /\ WF_vars(InConnection(EndRead))
  /\ WF_vars(InConnection(HandleLine))
  /\ \A c \in Callers :
       /\ WF_vars(InConnection(Write(c)))
       /\ WF_vars(InConnection(TakeAnswer(c) \/ SeeClosed(c)))
  /\ WF_vars(InTurn(Turn!Loop))
  /\ WF_vars(InTurn(Turn!Submitted \/ Turn!SubmitFails))

PartsSpec == PartsInit /\ [][PartsNext]_vars /\ PartsFairness

(* consumeHarnessTurn: what the client was shown is what a reload shows, a message
   taken from the queue reaches the model or is put back, and the loop never waits
   on events without a token to come. *)
TurnKept == Turn!TypeOK /\ Turn!ShownIsStored /\ Turn!SteerKept /\ Turn!NoLostWakeup

(* ensure, rewind and SetHarnessConversationID: plain turns lose no history, and a
   turn runs on the conversation that is stored. *)
ConversationKept == Transcript!TypeOK /\ Transcript!HistoryKept /\ Transcript!RunsOnStored

(* Call, readLoop and consumeHarnessTurn: a call ends when its connection does, the
   sidecar's events get through while a handler works, and a turn returns after a
   stop and after its run's end. *)
HarnessReturns == CallsEnd /\ NotesFlow /\ Turn!StopReturns /\ Turn!RunEndReturns

(* "The stream ended -- the sidecar died": the turn ends then. *)
DeathReturns == Turn!DeathReturns

(* The rewind brings the conversation to where the rows end. *)
RewoundToRows == Transcript!RewoundToRows
=============================================================================
