----------------------------- MODULE HarnessRPC -----------------------------
(***************************************************************************)
(* Conn of internal/harness/rpc.go: one JSON-RPC connection to the         *)
(* sidecar.  Callers register a request, write it and wait for its answer, *)
(* the end of their context or the end of the connection; the read loop    *)
(* hands answers to callers, runs each request of the sidecar in a         *)
(* goroutine of its own and handles notifications in place; either side    *)
(* may end the connection at any moment.                                   *)
(*                                                                         *)
(* An answer is named by the caller whose request it answers, so that an   *)
(* answer of another call shows.                                           *)
(***************************************************************************)
EXTENDS Naturals, Sequences, SequencesExt

CONSTANTS
  Callers,     (* goroutines that call the sidecar                         *)
  Requests,    (* requests the sidecar makes: tool calls, approvals        *)
  MaxCalls,    (* bound: calls                                             *)
  MaxNotes,    (* bound: notifications                                     *)
  NoCaller     (* no answer                                                *)

ASSUME HarnessRPCAssumption ==
  /\ MaxCalls \in Nat /\ MaxNotes \in Nat
  /\ NoCaller \notin Callers

VARIABLES
  nextID,      (* nextID                                                   *)
  pending,     (* the keys of pending                                      *)
  connClosed,  (* closed                                                   *)
  closeCh,     (* closeCh has been closed                                  *)
  call,        (* where each caller is, and the id of its request          *)
  slot,        (* what each caller's channel holds                         *)
  got,         (* the answer each caller returned last                     *)
  asked,       (* requests the sidecar has and has not answered            *)
  wire,        (* the lines on their way from the sidecar                  *)
  reading,     (* the read loop runs                                       *)
  peerGone,    (* the sidecar has closed its end                           *)
  notes,       (* notifications the sidecar has sent                       *)
  told,        (* the notifications handled, in order                      *)
  request      (* how far each request of the sidecar is                   *)

callVars == <<nextID, pending, call, slot, got>>
closeVars == <<connClosed, closeCh>>
readVars == <<told, request>>
peerVars == <<asked, peerGone, notes>>
rpcVars == <<callVars, closeVars, readVars, peerVars, wire, reading>>

Lines == ({"reply"} \X (1 .. MaxCalls) \X Callers)
         \cup ({"note"} \X (1 .. MaxNotes)) \cup ({"request"} \X Requests)

TypeOK ==
  /\ nextID \in 0 .. MaxCalls
  /\ pending \subseteq 1 .. nextID
  /\ connClosed \in BOOLEAN /\ closeCh \in BOOLEAN
  /\ call \in [Callers -> [at : {"idle", "write", "wait"}, id : 0 .. nextID]]
  /\ slot \in [Callers -> Callers \cup {NoCaller}]
  /\ got \in [Callers -> Callers \cup {NoCaller}]
  /\ asked \subseteq (1 .. nextID) \X Callers
  /\ wire \in Seq(Lines)
  /\ reading \in BOOLEAN /\ peerGone \in BOOLEAN
  /\ notes \in 0 .. MaxNotes
  /\ told \in Seq(1 .. notes)
  /\ request \in [Requests -> {"no", "sent", "running", "done"}]

Init ==
  /\ nextID = 0 /\ pending = {}
  /\ connClosed = FALSE /\ closeCh = FALSE
  /\ call = [c \in Callers |-> [at |-> "idle", id |-> 0]]
  /\ slot = [c \in Callers |-> NoCaller]
  /\ got = [c \in Callers |-> NoCaller]
  /\ asked = {} /\ wire = <<>>
  /\ reading = TRUE /\ peerGone = FALSE
  /\ notes = 0 /\ told = <<>>
  /\ request = [r \in Requests |-> "no"]
-----------------------------------------------------------------------------
(* A bug to catch: the id is read outside the lock and two calls share it. *)
FreshIDStale == IF nextID = 0 THEN 1 ELSE nextID

FreshID == nextID + 1

(* register, refused once the connection is closed. *)
Register(c) ==
  /\ call[c].at = "idle" /\ nextID < MaxCalls
  /\ ~connClosed
  /\ nextID' = FreshID
  /\ pending' = pending \cup {nextID'}
  /\ call' = [call EXCEPT ![c] = [at |-> "write", id |-> nextID']]
  /\ slot' = [slot EXCEPT ![c] = NoCaller]
  /\ got' = [got EXCEPT ![c] = NoCaller]
  /\ UNCHANGED <<closeVars, readVars, peerVars, wire, reading>>

Return(c, answer) ==
  /\ call' = [call EXCEPT ![c] = [at |-> "idle", id |-> 0]]
  /\ got' = [got EXCEPT ![c] = answer]

(* The request reaches the sidecar, if there still is one. *)
Write(c) ==
  /\ call[c].at = "write"
  /\ call' = [call EXCEPT ![c].at = "wait"]
  /\ asked' = IF peerGone THEN asked ELSE asked \cup {<<call[c].id, c>>}
  /\ UNCHANGED <<nextID, pending, slot, got, closeVars, readVars, peerGone, notes,
                 wire, reading>>

(* unregister *)
Unregister(c) == pending' = pending \ {call[c].id}

(* The parameters cannot be encoded, the line is too long, or the socket takes
   no more. *)
WriteFails(c) ==
  /\ call[c].at = "write"
  /\ Unregister(c)
  /\ Return(c, NoCaller)
  /\ UNCHANGED <<nextID, slot, closeVars, readVars, peerVars, wire, reading>>

(* The select of Call: an answer, the end of the context at any moment, the end
   of the connection.  What is ready may be taken in any order. *)
TakeAnswer(c) ==
  /\ call[c].at = "wait" /\ slot[c] # NoCaller
  /\ Return(c, slot[c])
  /\ UNCHANGED <<nextID, pending, slot, closeVars, readVars, peerVars, wire, reading>>

GiveUp(c) ==
  /\ call[c].at = "wait"
  /\ Unregister(c)
  /\ Return(c, NoCaller)
  /\ UNCHANGED <<nextID, slot, closeVars, readVars, peerVars, wire, reading>>

SeeClosed(c) ==
  /\ call[c].at = "wait" /\ closeCh
  /\ Unregister(c)
  /\ Return(c, NoCaller)
  /\ UNCHANGED <<nextID, slot, closeVars, readVars, peerVars, wire, reading>>
-----------------------------------------------------------------------------
(* shutdown forgets them: their callers see closeCh. *)
DropPending == pending' = {}

(* shutdown, under the lock; only the first has an effect. *)
Shutdown ==
  /\ ~connClosed
  /\ connClosed' = TRUE
  /\ DropPending
  /\ UNCHANGED <<nextID, call, slot, got, closeCh, readVars, peerVars, wire, reading>>

Wake == closeCh' = TRUE

(* shutdown, after the lock. *)
CloseChannel ==
  /\ connClosed /\ ~closeCh
  /\ Wake
  /\ UNCHANGED <<callVars, connClosed, readVars, peerVars, wire, reading>>

(* The loop ends when a read fails: the sidecar has gone and everything it sent
   is read, or this side has closed.  It shuts down what is not yet. *)
EndRead ==
  /\ reading
  /\ (peerGone /\ wire = <<>>) \/ connClosed
  /\ reading' = FALSE
  /\ connClosed' = TRUE
  /\ pending' = {}
  /\ UNCHANGED <<nextID, call, slot, got, closeCh, readVars, peerVars, wire>>

NextLine(kind) ==
  /\ reading /\ wire # <<>> /\ wire[1][1] = kind
  /\ wire' = Tail(wire)

(* A reply goes to the call that waits for its id, and to no one otherwise. *)
HandleReply ==
  /\ NextLine("reply")
  /\ LET id == wire[1][2]
         waiting == {c \in Callers : call[c].id = id /\ id \in pending}
     IN /\ pending' = pending \ {id}
        /\ slot' = [c \in Callers |-> IF c \in waiting THEN wire[1][3] ELSE slot[c]]
  /\ UNCHANGED <<nextID, call, got, closeVars, readVars, peerVars, reading>>

(* A notification is handled where it is read. *)
HandleNotification ==
  /\ NextLine("note")
  /\ told' = Append(told, wire[1][2])
  /\ UNCHANGED <<callVars, closeVars, request, peerVars, reading>>

(* A request goes to a goroutine: the loop is never busy with one. *)
LoopFree == TRUE

HandleRequest ==
  /\ NextLine("request")
  /\ request' = [request EXCEPT ![wire[1][2]] = "running"]
  /\ UNCHANGED <<callVars, closeVars, told, peerVars, reading>>

HandleLine ==
  /\ LoopFree
  /\ HandleReply \/ HandleNotification \/ HandleRequest

(* The handler of a request returns, which may take for ever, and its answer is
   written, or not. *)
Respond(r) ==
  /\ request[r] = "running"
  /\ request' = [request EXCEPT ![r] = "done"]
  /\ UNCHANGED <<callVars, closeVars, told, peerVars, wire, reading>>
-----------------------------------------------------------------------------
(* The sidecar: it answers the requests it has in any order, sends
   notifications and requests of its own, and may go. *)
PeerReplies(q) ==
  /\ q \in asked /\ ~peerGone
  /\ asked' = asked \ {q}
  /\ wire' = Append(wire, <<"reply", q[1], q[2]>>)
  /\ UNCHANGED <<callVars, closeVars, readVars, peerGone, notes, reading>>

PeerNotes ==
  /\ notes < MaxNotes /\ ~peerGone
  /\ notes' = notes + 1
  /\ wire' = Append(wire, <<"note", notes'>>)
  /\ UNCHANGED <<callVars, closeVars, readVars, asked, peerGone, reading>>

PeerRequests(r) ==
  /\ request[r] = "no" /\ ~peerGone
  /\ request' = [request EXCEPT ![r] = "sent"]
  /\ wire' = Append(wire, <<"request", r>>)
  /\ UNCHANGED <<callVars, closeVars, told, peerVars, reading>>

PeerGoes ==
  /\ ~peerGone
  /\ peerGone' = TRUE
  /\ UNCHANGED <<callVars, closeVars, readVars, asked, notes, wire, reading>>

CallStep(c) ==
  Register(c) \/ Write(c) \/ WriteFails(c) \/ TakeAnswer(c) \/ GiveUp(c) \/ SeeClosed(c)

Next ==
  \/ \E c \in Callers : CallStep(c)
  \/ Shutdown \/ CloseChannel \/ EndRead \/ HandleLine
  \/ \E r \in Requests : Respond(r) \/ PeerRequests(r)
  \/ \E q \in asked : PeerReplies(q)
  \/ PeerNotes \/ PeerGoes

(* Goroutines run; contexts need not end, handlers and the sidecar need not
   answer. *)
Fairness ==
  /\ WF_rpcVars(CloseChannel) /\ WF_rpcVars(EndRead) /\ WF_rpcVars(HandleLine)
  /\ \A c \in Callers : WF_rpcVars(Write(c)) /\ WF_rpcVars(TakeAnswer(c) \/ SeeClosed(c))

Spec == Init /\ [][Next]_rpcVars
FairSpec == Spec /\ Fairness
-----------------------------------------------------------------------------
Waiting(c) == call[c].at # "idle" /\ slot[c] = NoCaller

(* register, unregister, handleLine and shutdown: while the connection is open
   the map holds exactly the calls that have no answer yet, so it leaks none and
   no answer finds a channel that is full; once closed it stays empty. *)
PendingExact ==
  pending = IF connClosed THEN {} ELSE {call[c].id : c \in {d \in Callers : Waiting(d)}}

(* Call: what a call returns as its answer answers this very call, although
   replies come in any order and ids of calls given up come back late. *)
AnswersMatch == \A c \in Callers : got[c] \in {c, NoCaller}

(* Conn: a call is pending exactly while it may still be answered, and what it
   returns is the answer to its own request. *)
CallsMatched == TypeOK /\ PendingExact /\ AnswersMatch

(* shutdown: a connection that ends releases every call, also one that
   registered just before; none waits for ever for an answer that cannot come. *)
CallsEnd == \A c \in Callers : (connClosed /\ call[c].at # "idle") ~> call[c].at = "idle"

(* readLoop: a handler that blocks on the user holds back no event: a
   notification that was sent is handled, in order, unless this side closes. *)
NotesFlow ==
  \A n \in 1 .. MaxNotes :
    (notes >= n) ~> (connClosed \/ IsPrefix([i \in 1 .. n |-> i], told))
=============================================================================
