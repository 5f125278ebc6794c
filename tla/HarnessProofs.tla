---------------------------- MODULE HarnessProofs ----------------------------
(***************************************************************************)
(* Theorems about the harness: its connection, for any callers, requests   *)
(* and numbers of calls and notifications, one turn on the sidecar, for    *)
(* any messages steered in, any text and any number of events, and the     *)
(* conversation of a session, for any numbers of turns and messages.  They *)
(* are about the specification the run checks, of which each part takes    *)
(* its own steps.                                                          *)
(*                                                                         *)
(* That an answer goes to the call it answers is not inductive: it rests   *)
(* on what is still on its way.  RpcIInv adds that no two calls share an   *)
(* id, that a request the sidecar has, and a reply on the wire, carries    *)
(* the id of the caller it names or of no call any more, and that a full   *)
(* channel holds its own caller's answer.                                  *)
(***************************************************************************)
EXTENDS MCHarness, FiniteSetTheorems, SequenceTheorems, WellFoundedInduction, TLAPS

(* A call that is under way has an id, of its own. *)
IdsDiffer ==
  /\ \A c \in Callers : call[c].at = "idle" <=> call[c].id = 0
  /\ \A c, d \in Callers : call[c].id = call[d].id /\ call[c].id # 0 => c = d

(* No call but d's has this id. *)
IsOf(id, d) ==
  /\ id \in 1 .. nextID /\ d \in Callers
  /\ \A c \in Callers : call[c].id = id => c = d

AskedIsOwn == \A q \in asked : IsOf(q[1], q[2])

(* What is on the wire was asked for, or sent. *)
IsReal(l) ==
  /\ l[1] = "reply" => IsOf(l[2], l[3])
  /\ l[1] = "note" => l[2] \in 1 .. notes

WireIsReal == \A i \in 1 .. Len(wire) : IsReal(wire[i])

SlotIsOwn == \A c \in Callers : slot[c] \in {c, NoCaller}

RpcIInv ==
  /\ TypeOK
  /\ IdsDiffer /\ AskedIsOwn /\ WireIsReal /\ SlotIsOwn
  /\ PendingExact /\ AnswersMatch
-----------------------------------------------------------------------------
(* What is read next. *)
LEMMA LineRead ==
  ASSUME TypeOK, WireIsReal, NEW kind, NextLine(kind)
  PROVE  /\ wire[1] \in Lines /\ wire[1][1] = kind /\ IsReal(wire[1])
         /\ wire' \in Seq(Lines)
         /\ \A i \in 1 .. Len(wire') : IsReal(wire'[i])
<1>1. wire \in Seq(Lines) /\ wire # <<>> /\ wire[1][1] = kind /\ wire' = Tail(wire)
  BY DEF TypeOK, NextLine
<1>2. Len(wire) \in Nat /\ Len(wire) >= 1 /\ wire[1] \in Lines
  BY <1>1
<1>3. wire' \in Seq(Lines) /\ Len(wire') = Len(wire) - 1
      /\ \A i \in 1 .. Len(wire') : wire'[i] = wire[i + 1]
  BY <1>1, <1>2
<1>4. \A i \in 1 .. Len(wire') : IsReal(wire'[i])
  <2> SUFFICES ASSUME NEW i \in 1 .. Len(wire') PROVE IsReal(wire'[i])
    OBVIOUS
  <2>1. i + 1 \in 1 .. Len(wire) /\ wire'[i] = wire[i + 1]
    BY <1>2, <1>3
  <2>2. QED
    BY <2>1 DEF WireIsReal
<1>5. IsReal(wire[1])
  BY <1>2 DEF WireIsReal
<1>6. QED
  BY <1>1, <1>2, <1>3, <1>4, <1>5

LEMMA LineKinds ==
  ASSUME NEW l \in Lines
  PROVE  /\ l[1] = "reply" => l[2] \in 1 .. MaxCalls /\ l[3] \in Callers
         /\ l[1] = "note" => l[2] \in 1 .. MaxNotes
         /\ l[1] = "request" => l[2] \in Requests
BY DEF Lines

(* A line that is sent comes after the others. *)
LEMMA LineSent ==
  ASSUME TypeOK, WireIsReal, NEW l \in Lines, IsReal(l), wire' = Append(wire, l)
  PROVE  /\ wire' \in Seq(Lines)
         /\ \A i \in 1 .. Len(wire') : IsReal(wire'[i])
<1>1. wire \in Seq(Lines) /\ Len(wire) \in Nat
  BY DEF TypeOK
<1>2. wire' \in Seq(Lines) /\ Len(wire') = Len(wire) + 1
      /\ \A i \in 1 .. Len(wire') : wire'[i] = IF i = Len(wire) + 1 THEN l ELSE wire[i]
  BY <1>1
<1>3. ASSUME NEW i \in 1 .. Len(wire') PROVE IsReal(wire'[i])
  <2>1. CASE i = Len(wire) + 1
    BY <2>1, <1>2
  <2>2. CASE i # Len(wire) + 1
    <3>1. i \in 1 .. Len(wire) /\ wire'[i] = wire[i]
      BY <1>1, <1>2, <2>2
    <3>2. QED
      BY <3>1 DEF WireIsReal
  <2>3. QED
    BY <2>1, <2>2
<1>4. QED
  BY <1>2, <1>3
-----------------------------------------------------------------------------
(* Whose an id is stays so when calls end, or begin with a new id. *)
LEMMA OwnerStays ==
  ASSUME TypeOK, nextID' \in Nat, nextID' >= nextID,
         \A c \in Callers : call'[c].id \in {call[c].id, 0} \/ call'[c].id > nextID
  PROVE  \A id, d : IsOf(id, d) =>
           /\ id \in 1 .. nextID' /\ d \in Callers
           /\ \A c \in Callers : call'[c].id = id => c = d
<1> SUFFICES ASSUME NEW id, NEW d, IsOf(id, d)
             PROVE  /\ id \in 1 .. nextID' /\ d \in Callers
                    /\ \A c \in Callers : call'[c].id = id => c = d
  OBVIOUS
<1>1. id \in 1 .. nextID /\ d \in Callers /\ \A c \in Callers : call[c].id = id => c = d
  BY DEF IsOf
<1>2. nextID \in Nat
  BY HarnessRPCAssumption DEF TypeOK, HarnessRPCAssumption
<1>3. QED
  BY <1>1, <1>2

LEMMA RpcInit == Init => RpcIInv
<1> SUFFICES ASSUME Init PROVE RpcIInv
  OBVIOUS
<1> USE HarnessRPCAssumption DEF HarnessRPCAssumption, Init
<1>1. TypeOK
  <2>1. wire \in Seq(Lines) /\ told \in Seq(1 .. notes)
    OBVIOUS
  <2>2. call \in [Callers -> [at : {"idle", "write", "wait"}, id : 0 .. nextID]]
    OBVIOUS
  <2>3. slot \in [Callers -> Callers \cup {NoCaller}] /\ got \in [Callers -> Callers \cup {NoCaller}]
    OBVIOUS
  <2>4. request \in [Requests -> {"no", "sent", "running", "done"}]
    OBVIOUS
  <2>5. nextID \in 0 .. MaxCalls /\ notes \in 0 .. MaxNotes /\ pending \subseteq 1 .. nextID
        /\ asked \subseteq (1 .. nextID) \X Callers
    OBVIOUS
  <2>6. connClosed \in BOOLEAN /\ closeCh \in BOOLEAN /\ reading \in BOOLEAN /\ peerGone \in BOOLEAN
    OBVIOUS
  <2>7. QED
    BY <2>1, <2>2, <2>3, <2>4, <2>5, <2>6 DEF TypeOK
<1>2. IdsDiffer /\ AskedIsOwn /\ WireIsReal /\ SlotIsOwn /\ AnswersMatch
  BY DEF IdsDiffer, AskedIsOwn, WireIsReal, SlotIsOwn, AnswersMatch
<1>3. PendingExact
  BY DEF PendingExact, Waiting
<1>4. QED
  BY <1>1, <1>2, <1>3 DEF RpcIInv

LEMMA CallKeeps ==
  ASSUME RpcIInv, NEW c \in Callers, CallStep(c)
  PROVE  RpcIInv'
<1> USE HarnessRPCAssumption DEF HarnessRPCAssumption
<1>1. CASE Register(c)
  <2>1. /\ call[c].at = "idle" /\ nextID < MaxCalls /\ ~connClosed
        /\ nextID' = nextID + 1 /\ pending' = pending \cup {nextID + 1}
        /\ call' = [call EXCEPT ![c] = [at |-> "write", id |-> nextID + 1]]
        /\ slot' = [slot EXCEPT ![c] = NoCaller] /\ got' = [got EXCEPT ![c] = NoCaller]
        /\ UNCHANGED <<connClosed, closeCh, told, request, asked, peerGone, notes, wire, reading>>
    BY <1>1 DEF Register, FreshID, closeVars, readVars, peerVars
  <2>2. TypeOK'
    BY <2>1 DEF RpcIInv, TypeOK
  <2>3. IdsDiffer'
    BY <2>1 DEF RpcIInv, TypeOK, IdsDiffer
  <2>4. WireIsReal' /\ AskedIsOwn'
    <3>1. \A id, d : IsOf(id, d) =>
            /\ id \in 1 .. nextID' /\ d \in Callers
            /\ \A e \in Callers : call'[e].id = id => e = d
      BY <2>1, OwnerStays DEF RpcIInv, TypeOK
    <3>2. \A id, d : IsOf(id, d) => IsOf(id, d)'
      BY <3>1 DEF IsOf
    <3>3. AskedIsOwn'
      BY <2>1, <3>2 DEF RpcIInv, AskedIsOwn
    <3>4. \A l : IsReal(l) => IsReal(l)'
      BY <2>1, <3>2 DEF IsReal
    <3>5. WireIsReal'
      BY <2>1, <3>4 DEF RpcIInv, WireIsReal
    <3>6. QED
      BY <3>3, <3>5
  <2>5. PendingExact'
    BY <2>1 DEF RpcIInv, TypeOK, IdsDiffer, PendingExact, Waiting
  <2>6. SlotIsOwn' /\ AnswersMatch'
    BY <2>1 DEF RpcIInv, TypeOK, SlotIsOwn, AnswersMatch
  <2>7. QED
    BY <2>2, <2>3, <2>4, <2>5, <2>6 DEF RpcIInv
<1>2. CASE Write(c)
  <2>1. /\ call[c].at = "write" /\ call' = [call EXCEPT ![c].at = "wait"]
        /\ asked' \in {asked, asked \cup {<<call[c].id, c>>}}
        /\ UNCHANGED <<nextID, pending, slot, got, connClosed, closeCh, told, request,
                       peerGone, notes, wire, reading>>
    BY <1>2 DEF Write, closeVars, readVars
  <2>2. \A d \in Callers : call'[d].id = call[d].id /\ (call'[d].at = "idle" <=> call[d].at = "idle")
    BY <2>1 DEF RpcIInv, TypeOK
  <2>3. call[c].id \in 1 .. nextID /\ IsOf(call[c].id, c)
    BY <2>1 DEF RpcIInv, TypeOK, IdsDiffer, IsOf
  <2>4. TypeOK'
    <3>1. <<call[c].id, c>> \in (1 .. nextID) \X Callers
      BY <2>3
    <3>2. QED
      BY <2>1, <3>1 DEF RpcIInv, TypeOK
  <2>5. IdsDiffer' /\ SlotIsOwn' /\ AnswersMatch'
    BY <2>1, <2>2 DEF RpcIInv, IdsDiffer, SlotIsOwn, AnswersMatch
  <2>6. PendingExact'
    <3>1. \A d \in Callers : Waiting(d)' <=> Waiting(d)
      BY <2>1, <2>2 DEF Waiting
    <3>2. QED
      BY <2>1, <2>2, <3>1 DEF RpcIInv, PendingExact
  <2>7. WireIsReal' /\ AskedIsOwn'
    BY <2>1, <2>2, <2>3 DEF RpcIInv, WireIsReal, AskedIsOwn, IsReal, IsOf
  <2>8. QED
    BY <2>4, <2>5, <2>6, <2>7 DEF RpcIInv
<1>3. CASE WriteFails(c) \/ TakeAnswer(c) \/ GiveUp(c) \/ SeeClosed(c)
  <2>1. /\ call[c].at # "idle"
        /\ call' = [call EXCEPT ![c] = [at |-> "idle", id |-> 0]]
        /\ \/ pending' = pending \ {call[c].id} /\ got' = [got EXCEPT ![c] = NoCaller]
           \/ pending' = pending /\ slot[c] # NoCaller /\ got' = [got EXCEPT ![c] = slot[c]]
        /\ UNCHANGED <<nextID, slot, connClosed, closeCh, told, request, asked, peerGone,
                       notes, wire, reading>>
    BY <1>3 DEF WriteFails, TakeAnswer, GiveUp, SeeClosed, Return, Unregister, closeVars,
                readVars, peerVars
  <2>2. TypeOK'
    <3>1. call' \in [Callers -> [at : {"idle", "write", "wait"}, id : 0 .. nextID]]
      BY <2>1 DEF RpcIInv, TypeOK
    <3>2. got' \in [Callers -> Callers \cup {NoCaller}]
      BY <2>1 DEF RpcIInv, TypeOK
    <3>3. QED
      BY <2>1, <3>1, <3>2 DEF RpcIInv, TypeOK
  <2>3. IdsDiffer'
    BY <2>1 DEF RpcIInv, TypeOK, IdsDiffer
  <2>4. WireIsReal' /\ AskedIsOwn'
    <3>1. \A id, d : IsOf(id, d) =>
            /\ id \in 1 .. nextID' /\ d \in Callers
            /\ \A e \in Callers : call'[e].id = id => e = d
      BY <2>1, OwnerStays DEF RpcIInv, TypeOK
    <3>2. \A id, d : IsOf(id, d) => IsOf(id, d)'
      BY <3>1 DEF IsOf
    <3>3. AskedIsOwn'
      BY <2>1, <3>2 DEF RpcIInv, AskedIsOwn
    <3>4. \A l : IsReal(l) => IsReal(l)'
      BY <2>1, <3>2 DEF IsReal
    <3>5. WireIsReal'
      BY <2>1, <3>4 DEF RpcIInv, WireIsReal
    <3>6. QED
      BY <3>3, <3>5
  <2>5. PendingExact'
    BY <2>1 DEF RpcIInv, TypeOK, IdsDiffer, PendingExact, Waiting
  <2>6. SlotIsOwn' /\ AnswersMatch'
    BY <2>1 DEF RpcIInv, TypeOK, SlotIsOwn, AnswersMatch
  <2>7. QED
    BY <2>2, <2>3, <2>4, <2>5, <2>6 DEF RpcIInv
<1>4. QED
  BY <1>1, <1>2, <1>3 DEF CallStep

(* The end of the connection, from either side. *)
LEMMA CloseKeeps ==
  ASSUME RpcIInv, Shutdown \/ CloseChannel \/ EndRead
  PROVE  RpcIInv'
<1>1. /\ \/ connClosed' = TRUE /\ pending' = {}
         \/ UNCHANGED <<connClosed, pending>>
      /\ closeCh' \in BOOLEAN /\ reading' \in BOOLEAN
      /\ UNCHANGED <<nextID, call, slot, got, told, request, asked, peerGone, notes, wire>>
  BY DEF RpcIInv, TypeOK, Shutdown, DropPending, CloseChannel, Wake, EndRead, callVars, readVars, peerVars
<1>2. TypeOK'
  BY <1>1 DEF RpcIInv, TypeOK
<1>3. IdsDiffer' /\ AskedIsOwn' /\ WireIsReal' /\ SlotIsOwn' /\ AnswersMatch'
  BY <1>1 DEF RpcIInv, IdsDiffer, AskedIsOwn, WireIsReal, IsReal, IsOf, SlotIsOwn, AnswersMatch
<1>4. PendingExact'
  BY <1>1 DEF RpcIInv, PendingExact, Waiting
<1>5. QED
  BY <1>2, <1>3, <1>4 DEF RpcIInv

LEMMA ReadKeeps ==
  ASSUME RpcIInv, HandleLine
  PROVE  RpcIInv'
<1> USE HarnessRPCAssumption DEF HarnessRPCAssumption
<1>1. CASE HandleReply
  <2> DEFINE id == wire[1][2]
             d == wire[1][3]
             waiting == {c \in Callers : call[c].id = id /\ id \in pending}
  <2>1. /\ NextLine("reply") /\ pending' = pending \ {id}
        /\ slot' = [c \in Callers |-> IF c \in waiting THEN d ELSE slot[c]]
        /\ UNCHANGED <<nextID, call, got, connClosed, closeCh, told, request, asked, peerGone,
                       notes, reading>>
    BY <1>1 DEF HandleReply, closeVars, readVars, peerVars
  <2>2. /\ IsOf(id, d) /\ d \in Callers /\ wire' \in Seq(Lines)
        /\ \A i \in 1 .. Len(wire') : IsReal(wire'[i])
    BY <2>1, LineRead DEF RpcIInv, IsReal, IsOf
  <2>3. waiting \subseteq {d}
    BY <2>2 DEF IsOf
  <2> HIDE DEF id, d, waiting
  <2>4. TypeOK'
    BY <2>1, <2>2 DEF RpcIInv, TypeOK
  <2>5. IdsDiffer' /\ AskedIsOwn' /\ AnswersMatch'
    BY <2>1 DEF RpcIInv, IdsDiffer, AskedIsOwn, IsOf, AnswersMatch
  <2>6. WireIsReal'
    BY <2>1, <2>2 DEF WireIsReal, IsReal, IsOf
  <2>7. SlotIsOwn'
    BY <2>1, <2>3 DEF RpcIInv, SlotIsOwn
  <2>8. PendingExact'
    <3>1. CASE connClosed
      BY <3>1, <2>1 DEF RpcIInv, PendingExact
    <3>2. CASE ~connClosed
      <4>1. pending = {call[c].id : c \in {e \in Callers : Waiting(e)}}
        BY <3>2 DEF RpcIInv, PendingExact
      <4>2. \A c \in Callers : Waiting(c)' <=> Waiting(c) /\ c \notin waiting
        BY <2>1, <2>2 DEF Waiting, HarnessRPCAssumption
      <4>3. \A c \in Callers : Waiting(c) => (c \in waiting <=> call[c].id = id)
        BY <4>1 DEF waiting
      <4>4. QED
        BY <2>1, <3>2, <4>1, <4>2, <4>3 DEF PendingExact
    <3>3. QED
      BY <3>1, <3>2
  <2>9. QED
    BY <2>4, <2>5, <2>6, <2>7, <2>8 DEF RpcIInv
<1>2. CASE HandleNotification \/ HandleRequest
  <2>1. PICK kind \in {"note", "request"} :
          /\ NextLine(kind)
          /\ IF kind = "note" THEN told' = Append(told, wire[1][2]) /\ request' = request
             ELSE told' = told /\ request' = [request EXCEPT ![wire[1][2]] = "running"]
    BY <1>2 DEF HandleNotification, HandleRequest
  <2>2. UNCHANGED <<nextID, pending, call, slot, got, connClosed, closeCh, asked, peerGone,
                    notes, reading>>
    BY <1>2 DEF HandleNotification, HandleRequest, callVars, closeVars, peerVars
  <2>3. /\ wire[1] \in Lines /\ wire[1][1] = kind /\ IsReal(wire[1]) /\ wire' \in Seq(Lines)
        /\ \A i \in 1 .. Len(wire') : IsReal(wire'[i])
    BY <2>1, LineRead DEF RpcIInv
  <2>4. /\ kind = "note" => wire[1][2] \in 1 .. notes
        /\ kind = "request" => wire[1][2] \in Requests
    BY <2>3, LineKinds DEF IsReal
  <2>5. told' \in Seq(1 .. notes) /\ request' \in [Requests -> {"no", "sent", "running", "done"}]
    <3>1. CASE kind = "note"
      <4>1. told \in Seq(1 .. notes) /\ wire[1][2] \in 1 .. notes
            /\ told' = Append(told, wire[1][2])
        BY <3>1, <2>1, <2>4 DEF RpcIInv, TypeOK
      <4>2. told' \in Seq(1 .. notes)
        BY <4>1
      <4>3. request' \in [Requests -> {"no", "sent", "running", "done"}]
        BY <3>1, <2>1 DEF RpcIInv, TypeOK
      <4>4. QED
        BY <4>2, <4>3
    <3>2. CASE kind = "request"
      BY <3>2, <2>1, <2>4 DEF RpcIInv, TypeOK
    <3>3. QED
      BY <3>1, <3>2
  <2>6. TypeOK'
    BY <2>2, <2>3, <2>5 DEF RpcIInv, TypeOK
  <2>7. IdsDiffer' /\ AskedIsOwn' /\ AnswersMatch' /\ SlotIsOwn' /\ PendingExact'
    BY <2>2 DEF RpcIInv, IdsDiffer, AskedIsOwn, IsOf, AnswersMatch, SlotIsOwn, PendingExact, Waiting
  <2>8. WireIsReal'
    BY <2>2, <2>3 DEF WireIsReal, IsReal, IsOf
  <2>9. QED
    BY <2>6, <2>7, <2>8 DEF RpcIInv
<1>3. QED
  BY <1>1, <1>2 DEF HandleLine

(* The sidecar sends, or goes. *)
LEMMA PeerKeeps ==
  ASSUME RpcIInv,
         \/ \E q \in asked : PeerReplies(q)
         \/ \E r \in Requests : PeerRequests(r)
         \/ PeerNotes \/ PeerGoes
  PROVE  RpcIInv'
<1> USE HarnessRPCAssumption DEF HarnessRPCAssumption
<1>0. /\ UNCHANGED <<nextID, pending, call, slot, got, connClosed, closeCh, told, reading>>
      /\ asked' \subseteq asked /\ notes' \in notes .. MaxNotes /\ peerGone' \in BOOLEAN
      /\ request' \in [Requests -> {"no", "sent", "running", "done"}]
  <2> USE DEF callVars, closeVars, readVars, peerVars
  <2>0. /\ notes \in Nat /\ notes <= MaxNotes /\ peerGone \in BOOLEAN
        /\ request \in [Requests -> {"no", "sent", "running", "done"}]
    BY DEF RpcIInv, TypeOK
  <2>1. CASE \E q \in asked : PeerReplies(q)
    BY <2>0, <2>1 DEF PeerReplies
  <2>2. CASE \E r \in Requests : PeerRequests(r)
    BY <2>0, <2>2 DEF PeerRequests
  <2>3. CASE PeerNotes
    BY <2>0, <2>3 DEF PeerNotes
  <2>4. CASE PeerGoes
    BY <2>0, <2>4 DEF PeerGoes
  <2>5. QED
    BY <2>1, <2>2, <2>3, <2>4
<1>1. /\ wire' \in Seq(Lines)
      /\ \A i \in 1 .. Len(wire') :
           \/ IsReal(wire'[i])
           \/ wire'[i] = <<"note", notes'>> /\ notes' = notes + 1
  <2>1. CASE \E q \in asked : PeerReplies(q)
    <3>1. PICK q \in asked : wire' = Append(wire, <<"reply", q[1], q[2]>>)
      BY <2>1 DEF PeerReplies
    <3>2. q[1] \in 1 .. nextID /\ q[2] \in Callers /\ IsOf(q[1], q[2])
      BY DEF RpcIInv, TypeOK, AskedIsOwn, IsOf
    <3>3. <<"reply", q[1], q[2]>> \in Lines /\ IsReal(<<"reply", q[1], q[2]>>)
      BY <3>2 DEF RpcIInv, TypeOK, Lines, IsReal
    <3>4. wire' \in Seq(Lines) /\ \A i \in 1 .. Len(wire') : IsReal(wire'[i])
      <4> DEFINE l == <<"reply", q[1], q[2]>>
      <4>1. l \in Lines /\ IsReal(l) /\ wire' = Append(wire, l)
        BY <3>1, <3>3
      <4> HIDE DEF l
      <4>2. QED
        BY <4>1, LineSent DEF RpcIInv
    <3>5. QED
      BY <3>4
  <2>2. CASE \E r \in Requests : PeerRequests(r)
    <3>1. PICK r \in Requests : wire' = Append(wire, <<"request", r>>)
      BY <2>2 DEF PeerRequests
    <3>2. <<"request", r>> \in Lines /\ IsReal(<<"request", r>>)
      BY DEF Lines, IsReal
    <3>3. wire' \in Seq(Lines) /\ \A i \in 1 .. Len(wire') : IsReal(wire'[i])
      <4> DEFINE l == <<"request", r>>
      <4>1. l \in Lines /\ IsReal(l) /\ wire' = Append(wire, l)
        BY <3>1, <3>2
      <4> HIDE DEF l
      <4>2. QED
        BY <4>1, LineSent DEF RpcIInv
    <3>4. QED
      BY <3>3
  <2>3. CASE PeerNotes
    <3>1. wire' = Append(wire, <<"note", notes'>>) /\ notes' = notes + 1 /\ notes' \in 1 .. MaxNotes
      BY <2>3 DEF RpcIInv, TypeOK, PeerNotes
    <3>2. <<"note", notes'>> \in Lines
      BY <3>1 DEF Lines
    <3>3. wire' \in Seq(Lines) /\ Len(wire') = Len(wire) + 1
          /\ \A i \in 1 .. Len(wire') :
               wire'[i] = IF i = Len(wire) + 1 THEN <<"note", notes'>> ELSE wire[i]
      BY <3>1, <3>2 DEF RpcIInv, TypeOK
    <3>4. Len(wire) \in Nat
      BY DEF RpcIInv, TypeOK
    <3>5. QED
      BY <3>1, <3>3, <3>4 DEF RpcIInv, WireIsReal
  <2>4. CASE PeerGoes
    <3>1. wire' = wire /\ wire \in Seq(Lines) /\ \A i \in 1 .. Len(wire) : IsReal(wire[i])
      BY <2>4 DEF RpcIInv, TypeOK, WireIsReal, PeerGoes
    <3>2. QED
      BY <3>1
  <2>5. QED
    BY <2>1, <2>2, <2>3, <2>4
<1>2. TypeOK'
  <2>1. notes \in Nat /\ notes' \in 0 .. MaxNotes /\ notes' >= notes
    BY <1>0 DEF RpcIInv, TypeOK
  <2>2. told \in Seq(1 .. notes')
    <3>1. 1 .. notes \subseteq 1 .. notes'
      BY <2>1
    <3>2. told \in Seq(1 .. notes)
      BY DEF RpcIInv, TypeOK
    <3>3. QED
      BY <3>1, <3>2, SeqMonotonic
  <2>3. QED
    BY <1>0, <1>1, <2>1, <2>2 DEF RpcIInv, TypeOK
<1>3. IdsDiffer' /\ AskedIsOwn' /\ SlotIsOwn' /\ AnswersMatch'
  BY <1>0 DEF RpcIInv, IdsDiffer, AskedIsOwn, IsOf, SlotIsOwn, AnswersMatch
<1>4. WireIsReal'
  <2> SUFFICES ASSUME NEW i \in 1 .. Len(wire')
               PROVE  /\ wire'[i][1] = "reply" => IsOf(wire'[i][2], wire'[i][3])
                      /\ wire'[i][1] = "note" => wire'[i][2] \in 1 .. notes'
    BY <1>0 DEF WireIsReal, IsReal, IsOf
  <2>1. notes \in Nat /\ notes' \in Nat /\ notes' >= notes
    BY <1>0 DEF RpcIInv, TypeOK
  <2>2. CASE IsReal(wire'[i])
    BY <2>1, <2>2 DEF IsReal
  <2>3. CASE wire'[i] = <<"note", notes'>> /\ notes' = notes + 1
    BY <2>1, <2>3
  <2>4. QED
    BY <1>1, <2>2, <2>3
<1>5. PendingExact'
  BY <1>0 DEF RpcIInv, PendingExact, Waiting
<1>6. QED
  BY <1>2, <1>3, <1>4, <1>5 DEF RpcIInv

LEMMA RpcStep == RpcIInv /\ [Next]_rpcVars => RpcIInv'
<1> SUFFICES ASSUME RpcIInv, [Next]_rpcVars PROVE RpcIInv'
  OBVIOUS
<1>1. CASE \E c \in Callers : CallStep(c)
  BY <1>1, CallKeeps
<1>2. CASE Shutdown \/ CloseChannel \/ EndRead
  BY <1>2, CloseKeeps
<1>3. CASE HandleLine
  BY <1>3, ReadKeeps
<1>4. CASE (\E q \in asked : PeerReplies(q)) \/ (\E r \in Requests : PeerRequests(r))
           \/ PeerNotes \/ PeerGoes
  BY <1>4, PeerKeeps
<1>5. CASE \E r \in Requests : Respond(r)
  <2>1. PICK r \in Requests : Respond(r)
    BY <1>5
  <2>2. /\ request' = [request EXCEPT ![r] = "done"]
        /\ UNCHANGED <<nextID, pending, call, slot, got, connClosed, closeCh, told, asked,
                       peerGone, notes, wire, reading>>
    BY <2>1 DEF Respond, callVars, closeVars, peerVars
  <2>3. TypeOK'
    BY <2>2 DEF RpcIInv, TypeOK
  <2>4. QED
    BY <2>2, <2>3 DEF RpcIInv, IdsDiffer, AskedIsOwn, WireIsReal, IsReal, IsOf, SlotIsOwn,
                      AnswersMatch, PendingExact, Waiting
<1>6. CASE UNCHANGED rpcVars
  BY <1>6 DEF RpcIInv, TypeOK, IdsDiffer, AskedIsOwn, WireIsReal, IsReal, IsOf, SlotIsOwn,
              AnswersMatch, PendingExact, Waiting, rpcVars, callVars, closeVars, readVars, peerVars
<1>7. QED
  BY <1>1, <1>2, <1>3, <1>4, <1>5, <1>6 DEF Next

(* Conn: on every connection, for any callers, a call is pending exactly while it may
   still be answered, and what a call returns is the answer to its own request. *)
THEOREM CallsAreMatched == Spec => []CallsMatched
<1>1. RpcIInv => CallsMatched
  BY DEF RpcIInv, CallsMatched
<1>2. QED
  BY RpcInit, RpcStep, <1>1, PTL DEF Spec

-----------------------------------------------------------------------------
Rounds == Seq(Pieces)

(* The open round is the text that streamed, and there is one. *)
OpenIsText ==
  IF open THEN text # <<>> /\ shown # <<>> /\ shown[Len(shown)] = text ELSE text = <<>>

(* The client shows the rows, and after them the open round, unless a row could not
   be written. *)
ShownSaved == ~storeFailed => shown = IF open THEN Append(saved, text) ELSE saved

(* No round is open before the turn or after it. *)
ClosedAtEnds == at \in {"submit", "returned"} => ~open

Held == toSteer \cup heard \cup {taken[i] : i \in 1 .. Len(taken)}

TurnIInv ==
  /\ Turn!TypeOK /\ OpenIsText /\ ShownSaved /\ ClosedAtEnds
  /\ Steers = Held /\ Turn!NoLostWakeup
-----------------------------------------------------------------------------
(* reconcile: with the text a commit extends, the missing tail makes the whole. *)
LEMMA TailCompletes ==
  ASSUME NEW P, NEW a \in Seq(P), NEW t \in Seq(P), Turn!IsPrefix(a, t)
  PROVE  a \o SubSeq(t, Len(a) + 1, Len(t)) = t
<1>1. Len(a) \in Nat /\ Len(t) \in Nat /\ Len(a) <= Len(t)
  BY DEF Turn!IsPrefix
<1>2. SubSeq(t, 1, Len(a)) = a
  BY SubSeqFull DEF Turn!IsPrefix
<1>3. SubSeq(t, 1, Len(a)) \o SubSeq(t, Len(a) + 1, Len(t)) = SubSeq(t, 1, Len(t))
  <2>1. 1 \in 1 .. Len(t) + 1 /\ Len(a) \in 1 - 1 .. Len(t) /\ Len(t) \in Len(a) .. Len(t)
    BY <1>1
  <2> QED
    BY <2>1, ConcatAdjacentSubSeq
<1> QED
  BY <1>2, <1>3, SubSeqFull

(* Whatever a commit brings, the client is brought to show what is written: the
   commit's text, or what streamed when that is empty. *)
LEMMA ReconcileCompletes ==
  ASSUME OpenIsText, text \in Rounds, NEW t \in Rounds
  PROVE  Turn!Reconcile(t) = IF t = <<>> THEN text ELSE t
<1>1. Turn!Streamed = text
  BY DEF OpenIsText, Turn!Streamed, Turn!Last
<1>2. CASE Turn!IsPrefix(text, t)
  <2>1. Turn!Reconcile(t) = t
    BY <1>1, <1>2, TailCompletes DEF Turn!Reconcile, Rounds
  <2>2. t = <<>> => text = <<>>
    BY <1>2 DEF Turn!IsPrefix, Rounds
  <2> QED
    BY <2>1, <2>2
<1>3. CASE ~Turn!IsPrefix(text, t)
  BY <1>1, <1>3 DEF Turn!Reconcile
<1> QED
  BY <1>2, <1>3

(* SetToSeqs: the messages taken are those that were there. *)
LEMMA TakesAll ==
  ASSUME NEW S, IsFiniteSet(S), NEW s \in Turn!SetToSeqs(S)
  PROVE  s \in Seq(S) /\ {s[i] : i \in 1 .. Len(s)} = S
<1> DEFINE n == Cardinality(S)
<1>1. Turn!Cardinality(S) = n
  BY Zenon DEF Turn!Cardinality, Cardinality
<1>2. n \in Nat
  BY FS_CardinalityType
<1>3. s \in [1 .. n -> S] /\ \A i, j \in 1 .. n : i # j => s[i] # s[j]
  BY <1>1 DEF Turn!SetToSeqs
<1>4. s \in Seq(S) /\ Len(s) = n
  BY <1>2, <1>3
<1>5. s \in Injection(1 .. n, S)
  BY <1>3 DEF Injection, IsInjective
<1>6. Cardinality(1 .. n) = n
  BY <1>2, FS_Interval
<1>7. s \in Surjection(1 .. n, S)
  BY <1>5, <1>6, FS_Injection
<1> QED
  BY <1>3, <1>4, <1>7 DEF Surjection
-----------------------------------------------------------------------------
textOf == <<text, shown, open, saved, storeFailed>>
steersOf == <<toSteer, taken, heard>>

LEMMA TextStays ==
  OpenIsText /\ ShownSaved /\ UNCHANGED textOf => OpenIsText' /\ ShownSaved'
BY DEF OpenIsText, ShownSaved, textOf

LEMMA HeldStays == Steers = Held /\ UNCHANGED steersOf => Steers = Held'
BY DEF Held, steersOf

LEMMA TurnInit == Turn!Init => TurnIInv
<1> SUFFICES ASSUME Turn!Init
             PROVE  TurnIInv
  OBVIOUS
<1>1. {pushing, wake, done, open, stopped, storeFailed, abortSent} \subseteq BOOLEAN
  BY Zenon DEF Turn!Init
<1>2. <<>> \in Turn!Texts
  <2>1. <<>> \in [1 .. 0 -> Pieces]
    OBVIOUS
  <2> QED
    BY <2>1 DEF Turn!Texts
<1>3. Turn!TypeOK
  BY <1>1, <1>2, HarnessAssumption DEF Turn!Init, Turn!TypeOK
<1>4. OpenIsText /\ ShownSaved /\ ClosedAtEnds
  BY DEF Turn!Init, OpenIsText, ShownSaved, ClosedAtEnds
<1>5. Steers = Held
  BY DEF Turn!Init, Held
<1>6. Turn!NoLostWakeup
  BY DEF Turn!Init, Turn!NoLostWakeup
<1> QED
  BY <1>3, <1>4, <1>5, <1>6 DEF TurnIInv

(* The sidecar's steps. *)
LEMMA PushKeeps ==
  ASSUME TurnIInv, NEW ev \in Turn!Events, Turn!Push(ev), live' \in Turn!Texts,
         sidecar' \in {"running", "over"}
  PROVE  TurnIInv'
<1> USE DEF Turn!Push, Turn!textVars, Turn!steerVars, Turn!loopVars
<1>1. {pushing, wake, done, open, stopped, storeFailed, abortSent}' \subseteq BOOLEAN
  BY Zenon DEF TurnIInv, Turn!TypeOK
<1>2. Turn!TypeOK'
  BY <1>1, HarnessAssumption DEF TurnIInv, Turn!TypeOK
<1>3. OpenIsText' /\ ShownSaved'
  BY TextStays DEF TurnIInv, textOf
<1>4. Steers = Held'
  BY HeldStays DEF TurnIInv, steersOf
<1>5. Turn!NoLostWakeup' /\ ClosedAtEnds'
  BY Zenon DEF Turn!NoLostWakeup, TurnIInv, ClosedAtEnds
<1> QED
  BY <1>2, <1>3, <1>4, <1>5 DEF TurnIInv

LEMMA TextsArePieces ==
  /\ \A t \in Turn!Texts : t \in Rounds /\ Len(t) <= 2
  /\ <<>> \in Turn!Texts
  /\ \A t \in Turn!Texts, p \in Pieces : Len(t) < 2 => Append(t, p) \in Turn!Texts
<1>1. \A t \in Turn!Texts : t \in Rounds /\ Len(t) <= 2
  <2> SUFFICES ASSUME NEW t \in Turn!Texts
               PROVE  t \in Seq(Pieces) /\ Len(t) <= 2
    BY DEF Rounds
  <2>1. PICK n \in 0 .. 2 : t \in [1 .. n -> Pieces]
    BY DEF Turn!Texts
  <2>2. n \in Nat /\ n <= 2
    OBVIOUS
  <2> QED
    BY <2>1, <2>2
<1>2. <<>> \in Turn!Texts
  <2>1. <<>> \in [1 .. 0 -> Pieces]
    OBVIOUS
  <2> QED
    BY <2>1 DEF Turn!Texts
<1>3. ASSUME NEW t \in Turn!Texts, NEW p \in Pieces, Len(t) < 2
      PROVE  Append(t, p) \in Turn!Texts
  <2>0. t \in Seq(Pieces)
    BY <1>1 DEF Rounds
  <2>1. Len(t) \in Nat
    BY <2>0
  <2>2. Append(t, p) \in Seq(Pieces) /\ Len(Append(t, p)) = Len(t) + 1
    BY <2>0
  <2>3. Append(t, p) \in [1 .. Len(t) + 1 -> Pieces]
    BY <2>2, LenProperties
  <2>4. Len(t) + 1 \in 0 .. 2
    BY <1>3, <2>1
  <2> QED
    BY <2>3, <2>4, Zenon DEF Turn!Texts
<1> QED
  BY <1>1, <1>2, <1>3

LEMMA EventsAre ==
  /\ \A p \in Pieces : <<"delta", p>> \in Turn!Events
  /\ \A t \in Turn!Texts, kind \in {"commit", "failed"} : <<kind, t>> \in Turn!Events
  /\ \A kind \in {"fault", "end"} : <<kind, <<>>>> \in Turn!Events
<1>1. \A p \in Pieces : <<"delta", p>> \in Turn!Events
  BY DEF Turn!Events
<1>2. \A t \in Turn!Texts, kind \in {"commit", "failed"} : <<kind, t>> \in Turn!Events
  BY DEF Turn!Events
<1>3. \A kind \in {"fault", "end"} : <<kind, <<>>>> \in Turn!Events
  BY DEF Turn!Events
<1> QED
  BY <1>1, <1>2, <1>3

LEMMA EventFields ==
  ASSUME NEW e \in Turn!Events
  PROVE  /\ e[1] = "delta" => e[2] \in Pieces
         /\ e[1] \in {"commit", "failed"} => e[2] \in Turn!Texts
BY DEF Turn!Events

LEMMA SidecarKeeps ==
  ASSUME TurnIInv,
         Turn!Stream \/ Turn!Commit \/ Turn!RunEnds \/ Turn!Dies \/ Turn!PushWake \/ Turn!Stop
  PROVE  TurnIInv'
<1>1. CASE Turn!Stream
  BY <1>1, PushKeeps, TextsArePieces, EventsAre DEF Turn!Stream, TurnIInv, Turn!TypeOK, Turn!Push
<1>2. CASE Turn!Commit
  BY <1>2, PushKeeps, TextsArePieces, EventsAre DEF Turn!Commit
<1>3. CASE Turn!RunEnds
  BY <1>3, PushKeeps, EventsAre DEF Turn!RunEnds, TurnIInv, Turn!TypeOK
<1> USE DEF Turn!textVars, Turn!steerVars, Turn!loopVars, Turn!queueVars, Turn!sideVars
<1>0. ASSUME UNCHANGED <<at, open>> PROVE ClosedAtEnds'
  BY <1>0, Zenon DEF TurnIInv, ClosedAtEnds
<1>4. CASE Turn!Dies
  <2>1. Turn!TypeOK' /\ Turn!NoLostWakeup'
    BY <1>4 DEF Turn!Dies, TurnIInv, Turn!TypeOK, Turn!NoLostWakeup
  <2> QED
    BY <1>0, <1>4, <2>1, TextStays, HeldStays DEF Turn!Dies, TurnIInv, textOf, steersOf
<1>5. CASE Turn!PushWake
  <2>1. {pushing, wake, done, open, stopped, storeFailed, abortSent}' \subseteq BOOLEAN
    BY <1>5, Zenon DEF Turn!PushWake, Turn!Token, TurnIInv, Turn!TypeOK
  <2>2. Turn!TypeOK'
    BY <1>5, <2>1 DEF Turn!PushWake, TurnIInv, Turn!TypeOK
  <2>3. Turn!NoLostWakeup'
    BY <1>5, Zenon DEF Turn!PushWake, Turn!Token, Turn!NoLostWakeup
  <2> QED
    BY <1>0, <1>5, <2>2, <2>3, TextStays, HeldStays DEF Turn!PushWake, TurnIInv, textOf, steersOf
<1>6. CASE Turn!Stop
  <2>1. {pushing, wake, done, open, stopped, storeFailed, abortSent}' \subseteq BOOLEAN
    BY <1>6, Zenon DEF Turn!Stop, TurnIInv, Turn!TypeOK
  <2>2. Turn!TypeOK' /\ Turn!NoLostWakeup'
    BY <1>6, <2>1 DEF Turn!Stop, TurnIInv, Turn!TypeOK, Turn!NoLostWakeup
  <2> QED
    BY <1>0, <1>6, <2>2, TextStays, HeldStays DEF Turn!Stop, TurnIInv, textOf, steersOf
<1> QED
  BY <1>1, <1>2, <1>3, <1>4, <1>5, <1>6

SubmitSteps == Turn!Submitted \/ Turn!SubmitFails
DrainSteps ==
  Turn!DrainItems \/ Turn!DrainEmpty \/ Turn!DrainWaits \/ Turn!Woken \/ Turn!TimedOut
SteerSteps == Turn!TakeSteers \/ Turn!SteerSent \/ Turn!SteerFails

LEMMA SubmitKeeps == TurnIInv /\ SubmitSteps => TurnIInv'
<1> SUFFICES ASSUME TurnIInv, SubmitSteps
             PROVE  TurnIInv'
  OBVIOUS
<1> USE DEF Turn!textVars, Turn!steerVars, Turn!queueVars
<1>1. UNCHANGED textOf /\ UNCHANGED steersOf
  BY DEF SubmitSteps, Turn!Submitted, Turn!SubmitFails, textOf, steersOf
<1>2. Turn!TypeOK' /\ Turn!NoLostWakeup'
  <2>1. CASE Turn!Submitted
    BY <2>1 DEF Turn!Submitted, TurnIInv, Turn!TypeOK, Turn!NoLostWakeup
  <2>2. CASE Turn!SubmitFails
    BY <2>2 DEF Turn!SubmitFails, TurnIInv, Turn!TypeOK, Turn!NoLostWakeup
  <2> QED
    BY <2>1, <2>2 DEF SubmitSteps
<1>3. ClosedAtEnds'
  BY DEF SubmitSteps, Turn!Submitted, Turn!SubmitFails, TurnIInv, ClosedAtEnds
<1> QED
  BY <1>1, <1>2, <1>3, TextStays, HeldStays DEF TurnIInv

(* The loop goes on to wait only when it found the queue empty, and takes the token
   only to look at it again. *)
LEMMA DrainKeeps == TurnIInv /\ DrainSteps => TurnIInv'
<1> SUFFICES ASSUME TurnIInv, DrainSteps
             PROVE  TurnIInv'
  OBVIOUS
<1> USE DEF Turn!textVars, Turn!steerVars, Turn!queueVars, Turn!sideVars
<1>1. UNCHANGED textOf /\ UNCHANGED steersOf
  BY DEF DrainSteps, Turn!DrainItems, Turn!DrainEmpty, Turn!DrainWaits, Turn!Woken, Turn!TimedOut,
         textOf, steersOf
<1>2. Turn!TypeOK' /\ Turn!NoLostWakeup'
  <2>1. CASE Turn!DrainItems
    BY <2>1 DEF Turn!DrainItems, TurnIInv, Turn!TypeOK, Turn!NoLostWakeup
  <2>2. CASE Turn!DrainEmpty
    BY <2>2 DEF Turn!DrainEmpty, TurnIInv, Turn!TypeOK, Turn!NoLostWakeup
  <2>3. CASE Turn!DrainWaits
    BY <2>3 DEF Turn!DrainWaits, TurnIInv, Turn!TypeOK, Turn!NoLostWakeup
  <2>4. CASE Turn!Woken
    <3>1. {pushing, wake, done, open, stopped, storeFailed, abortSent}' \subseteq BOOLEAN
      BY <2>4, Zenon DEF Turn!Woken, TurnIInv, Turn!TypeOK
    <3> QED
      BY <2>4, <3>1 DEF Turn!Woken, TurnIInv, Turn!TypeOK, Turn!NoLostWakeup
  <2>5. CASE Turn!TimedOut
    BY <2>5 DEF Turn!TimedOut, Turn!AfterTimeout, TurnIInv, Turn!TypeOK, Turn!NoLostWakeup
  <2> QED
    BY <2>1, <2>2, <2>3, <2>4, <2>5 DEF DrainSteps
<1>3. ClosedAtEnds'
  BY DEF DrainSteps, Turn!DrainItems, Turn!DrainEmpty, Turn!DrainWaits, Turn!Woken,
         Turn!TimedOut, Turn!AfterTimeout, ClosedAtEnds
<1> QED
  BY <1>1, <1>2, <1>3, TextStays, HeldStays DEF TurnIInv

(* What a list holds is its head and what its tail holds. *)
LEMMA HeadAndTail ==
  ASSUME NEW S, NEW s \in Seq(S), s # <<>>
  PROVE  /\ Head(s) \in S /\ Tail(s) \in Seq(S)
         /\ {s[i] : i \in 1 .. Len(s)} = {Head(s)} \cup {Tail(s)[i] : i \in 1 .. Len(Tail(s))}
<1>1. Len(s) \in Nat \ {0} /\ Head(s) = s[1] /\ Tail(s) \in Seq(S) /\ Len(Tail(s)) = Len(s) - 1
  OBVIOUS
<1>2. \A i \in 1 .. Len(s) - 1 : Tail(s)[i] = s[i + 1]
  OBVIOUS
<1>3. \A i \in 2 .. Len(s) : i - 1 \in 1 .. Len(s) - 1 /\ (i - 1) + 1 = i
  BY <1>1
<1>4. \A i \in 1 .. Len(s) - 1 : i + 1 \in 1 .. Len(s)
  BY <1>1
<1>5. 1 \in 1 .. Len(s) /\ s[1] \in S
  BY <1>1
<1>6. \A i \in 1 .. Len(s) : i = 1 \/ i \in 2 .. Len(s)
  BY <1>1
<1>7. {s[i] : i \in 1 .. Len(s)} \subseteq {Head(s)} \cup {Tail(s)[i] : i \in 1 .. Len(Tail(s))}
  <2> SUFFICES ASSUME NEW i \in 1 .. Len(s)
               PROVE  s[i] = Head(s) \/ \E k \in 1 .. Len(Tail(s)) : s[i] = Tail(s)[k]
    BY Zenon
  <2>0. CASE i = 1
    BY <1>1, <2>0
  <2> SUFFICES ASSUME i # 1
               PROVE  \E k \in 1 .. Len(Tail(s)) : s[i] = Tail(s)[k]
    BY <2>0
  <2>1. i - 1 \in 1 .. Len(s) - 1 /\ (i - 1) + 1 = i
    BY <1>3, <1>6
  <2>2. i - 1 \in 1 .. Len(Tail(s)) /\ s[i] = Tail(s)[i - 1]
    BY <1>1, <1>2, <2>1
  <2> QED
    BY <2>2
<1>8. {Head(s)} \cup {Tail(s)[i] : i \in 1 .. Len(Tail(s))} \subseteq {s[i] : i \in 1 .. Len(s)}
  BY <1>1, <1>2, <1>4, <1>5
<1> QED
  BY <1>1, <1>5, <1>7, <1>8

(* pollSteer: what was taken is handed over, put back, or still in hand. *)
LEMMA SteerKeeps == TurnIInv /\ SteerSteps => TurnIInv'
<1> SUFFICES ASSUME TurnIInv, SteerSteps
             PROVE  TurnIInv'
  OBVIOUS
<1> USE DEF Turn!textVars, Turn!queueVars, Turn!sideVars
<1>1. UNCHANGED textOf
  BY DEF SteerSteps, Turn!TakeSteers, Turn!SteerSent, Turn!SteerFails, textOf
<1>2. toSteer \subseteq Steers /\ heard \subseteq Steers /\ taken \in Seq(Steers)
  BY DEF TurnIInv, Turn!TypeOK
<1>3. Turn!TypeOK' /\ Steers = Held'
  <2>1. CASE Turn!TakeSteers
    <3>1. PICK s \in Turn!SetToSeqs(toSteer) : taken' = s
      BY <2>1 DEF Turn!TakeSteers
    <3>2. IsFiniteSet(toSteer)
      BY <1>2, HarnessAssumption, FS_Subset
    <3>3. s \in Seq(toSteer) /\ {s[i] : i \in 1 .. Len(s)} = toSteer
      BY <3>1, <3>2, TakesAll
    <3>4. s \in Seq(Steers)
      BY <1>2, <3>3, SeqMonotonic
    <3>5. {taken[i] : i \in 1 .. Len(taken)} = {}
      BY <2>1 DEF Turn!TakeSteers
    <3>6. Steers = Held'
      BY <2>1, <3>1, <3>3, <3>5 DEF Turn!TakeSteers, TurnIInv, Held
    <3>7. Turn!TypeOK'
      BY <2>1, <3>1, <3>4 DEF Turn!TakeSteers, TurnIInv, Turn!TypeOK
    <3> QED
      BY <3>6, <3>7
  <2>2. CASE Turn!SteerSent
    <3>1. /\ Head(taken) \in Steers /\ Tail(taken) \in Seq(Steers)
          /\ {taken[i] : i \in 1 .. Len(taken)}
               = {Head(taken)} \cup {Tail(taken)[i] : i \in 1 .. Len(Tail(taken))}
      BY <1>2, <2>2, HeadAndTail DEF Turn!SteerSent
    <3>2. Steers = Held'
      BY <2>2, <3>1 DEF Turn!SteerSent, TurnIInv, Held
    <3>3. Turn!TypeOK'
      BY <2>2, <3>1 DEF Turn!SteerSent, TurnIInv, Turn!TypeOK
    <3> QED
      BY <3>2, <3>3
  <2>3. CASE Turn!SteerFails
    <3>1. /\ Head(taken) \in Steers /\ Tail(taken) \in Seq(Steers)
          /\ {taken[i] : i \in 1 .. Len(taken)}
               = {Head(taken)} \cup {Tail(taken)[i] : i \in 1 .. Len(Tail(taken))}
      BY <1>2, <2>3, HeadAndTail DEF Turn!SteerFails
    <3>2. Steers = Held'
      BY <2>3, <3>1 DEF Turn!SteerFails, Turn!Requeue, TurnIInv, Held
    <3>3. Turn!TypeOK'
      BY <2>3, <3>1 DEF Turn!SteerFails, Turn!Requeue, TurnIInv, Turn!TypeOK
    <3> QED
      BY <3>2, <3>3
  <2> QED
    BY <2>1, <2>2, <2>3 DEF SteerSteps
<1>4. Turn!NoLostWakeup' /\ ClosedAtEnds'
  BY DEF SteerSteps, Turn!TakeSteers, Turn!SteerSent, Turn!SteerFails, Turn!NoLostWakeup,
         ClosedAtEnds
<1> QED
  BY <1>1, <1>3, <1>4, TextStays DEF TurnIInv
-----------------------------------------------------------------------------
(* Replacing the last of a list. *)
LEMMA ReplaceLast ==
  ASSUME NEW S, NEW s \in Seq(S), s # <<>>, NEW b \in S
  PROVE  /\ [s EXCEPT ![Len(s)] = b] \in Seq(S)
         /\ [s EXCEPT ![Len(s)] = b] # <<>>
         /\ [s EXCEPT ![Len(s)] = b][Len([s EXCEPT ![Len(s)] = b])] = b
<1> DEFINE t == [s EXCEPT ![Len(s)] = b]
<1>1. Len(s) \in 1 .. Len(s)
  OBVIOUS
<1>2. t \in Seq(S) /\ Len(t) = Len(s) /\ t[Len(s)] = b
  BY <1>1, ExceptSeq
<1>3. t # <<>>
  BY <1>1, <1>2
<1> QED
  BY <1>2, <1>3

LEMMA ReplaceAppended ==
  ASSUME NEW S, NEW s \in Seq(S), NEW a \in S, NEW b \in S
  PROVE  [Append(s, a) EXCEPT ![Len(Append(s, a))] = b] = Append(s, b)
<1> DEFINE u == Append(s, a)
           t == [u EXCEPT ![Len(u)] = b]
           v == Append(s, b)
<1>1. u \in Seq(S) /\ Len(u) = Len(s) + 1 /\ Len(s) \in Nat
      /\ \A i \in 1 .. Len(s) : u[i] = s[i]
  OBVIOUS
<1>2. v \in Seq(S) /\ Len(v) = Len(s) + 1 /\ v[Len(s) + 1] = b
      /\ \A i \in 1 .. Len(s) : v[i] = s[i]
  OBVIOUS
<1>3. Len(u) \in 1 .. Len(u)
  BY <1>1
<1>4. t \in Seq(S) /\ Len(t) = Len(u)
      /\ \A j \in 1 .. Len(u) : t[j] = IF j = Len(u) THEN b ELSE u[j]
  <2> HIDE DEF u
  <2> QED
    BY <1>1, <1>3, ExceptSeq
<1> HIDE DEF u, t, v
<1>5. \A j \in 1 .. Len(t) : t[j] = v[j]
  BY <1>1, <1>2, <1>4
<1>6. t = v
  BY <1>1, <1>2, <1>4, <1>5, SeqEqual
<1> QED
  BY <1>6 DEF t, u, v

TextTypes == text \in Rounds /\ shown \in Seq(Rounds) /\ saved \in Seq(Rounds)

(* persist and the client's side of it: the round that is written, or the text that
   streamed, is the last the client shows. *)
LEMMA PersistKeeps ==
  ASSUME TextTypes, OpenIsText, ShownSaved, NEW round \in Rounds, Turn!Persist(round),
         round = <<>> => text = <<>>,
         Turn!Show(round) \/ (round = text /\ UNCHANGED shown)
  PROVE  TextTypes' /\ OpenIsText' /\ ShownSaved'
<1>1. text' = <<>> /\ open' = FALSE
  BY Zenon DEF Turn!Persist
<1>2. OpenIsText'
  BY <1>1, Zenon DEF OpenIsText
<1>3. saved' \in {saved, Append(saved, round)} /\ saved' \in Seq(Rounds)
  BY DEF Turn!Persist, TextTypes
<1>4. shown' \in Seq(Rounds)
  <2>1. CASE UNCHANGED shown
    BY <2>1 DEF TextTypes
  <2>2. CASE Turn!Show(round) /\ ~open
    BY <2>2 DEF Turn!Show, TextTypes
  <2>3. CASE Turn!Show(round) /\ open
    <3>1. shown \in Seq(Rounds) /\ shown # <<>>
      BY <2>3, Zenon DEF TextTypes, OpenIsText
    <3>2. shown' \in {shown, [shown EXCEPT ![Len(shown)] = round]}
      BY <2>3 DEF Turn!Show
    <3> QED
      BY <3>1, <3>2, ReplaceLast
  <2> QED
    BY <2>1, <2>2, <2>3
<1>5. TextTypes'
  BY <1>1, <1>3, <1>4 DEF TextTypes, Rounds
<1>6. ASSUME ~storeFailed' PROVE shown' = saved'
  <2>1. CASE round = <<>>
    <3>1. ~open /\ UNCHANGED <<saved, storeFailed, shown>>
      BY <2>1, Zenon DEF Turn!Persist, Turn!Show, OpenIsText
    <3> QED
      BY <3>1, <1>6, Zenon DEF ShownSaved
  <2>2. CASE round # <<>>
    <3>1. saved' = Append(saved, round) /\ ~storeFailed
      BY <2>2, <1>6, Zenon DEF Turn!Persist
    <3>2. shown = IF open THEN Append(saved, text) ELSE saved
      BY <3>1, Zenon DEF ShownSaved
    <3>3. CASE ~open
      <4>1. text = <<>>
        BY <3>3, Zenon DEF OpenIsText
      <4>2. Turn!Show(round)
        BY <4>1, <2>2
      <4>3. shown' = Append(shown, round) /\ shown = saved
        BY <4>2, <3>2, <3>3, <2>2, Zenon DEF Turn!Show
      <4> QED
        BY <3>1, <4>3
    <3>4. CASE open
      <4>1. shown = Append(saved, text)
        BY <3>2, <3>4, Zenon
      <4>2. CASE round = text /\ UNCHANGED shown
        BY <4>1, <4>2, <3>1
      <4>3. CASE Turn!Show(round)
        <5>1. shown' = [shown EXCEPT ![Len(shown)] = round]
          BY <4>3, <3>4, <2>2, Zenon DEF Turn!Show
        <5>2. saved \in Seq(Rounds) /\ text \in Rounds
          BY DEF TextTypes
        <5>3. [Append(saved, text) EXCEPT ![Len(Append(saved, text))] = round]
               = Append(saved, round)
          BY <5>2, ReplaceAppended
        <5> QED
          BY <5>1, <5>3, <4>1, <3>1
      <4> QED
        BY <4>2, <4>3
    <3> QED
      BY <3>3, <3>4
  <2> QED
    BY <2>1, <2>2
<1>7. ShownSaved'
  BY <1>1, <1>6, Zenon DEF ShownSaved
<1> QED
  BY <1>2, <1>5, <1>7

LEMMA AppendPiece ==
  ASSUME NEW t \in Rounds, NEW p \in Pieces
  PROVE  Append(t, p) \in Rounds /\ Append(t, p) # <<>>
BY AppendProperties, Zenon DEF Rounds

LEMMA TypesOfText == TurnIInv => TextTypes
BY DEF TurnIInv, Turn!TypeOK, TextTypes, Rounds

(* message_update *)
LEMMA DeltaKeeps == TurnIInv /\ Turn!OnDelta => TurnIInv'
<1> SUFFICES ASSUME TurnIInv, Turn!OnDelta
             PROVE  TurnIInv'
  OBVIOUS
<1> USE DEF Turn!steerVars, Turn!queueVars, Turn!sideVars
<1> SUFFICES ASSUME NEW p, p = Head(batch)[2]
             PROVE  TurnIInv'
  OBVIOUS
<1>1. batch \in Seq(Turn!Events) /\ batch # <<>>
  BY DEF TurnIInv, Turn!TypeOK, Turn!OnDelta, Turn!NextEvent
<1>2. Head(batch) \in Turn!Events /\ Tail(batch) \in Seq(Turn!Events)
  BY <1>1
<1>3. p \in Pieces
  <2>1. Head(batch)[1] = "delta"
    BY DEF Turn!OnDelta, Turn!NextEvent
  <2> QED
    BY <1>2, <2>1, EventFields
<1>4. TextTypes
  BY TypesOfText
<1>5. Turn!Streamed = text
  BY DEF TurnIInv, OpenIsText, Turn!Streamed, Turn!Last
<1>6. text' = Append(text, p) /\ open' = TRUE /\ UNCHANGED <<saved, storeFailed>>
  BY Zenon DEF Turn!OnDelta
<1>7. Append(text, p) \in Rounds /\ Append(text, p) # <<>>
  BY <1>3, <1>4, AppendPiece DEF TextTypes
<1>8. shown' = IF open THEN [shown EXCEPT ![Len(shown)] = Append(text, p)]
               ELSE Append(shown, Append(text, p))
  BY <1>5, <1>7, Zenon DEF Turn!OnDelta, Turn!Show
<1>9. /\ shown' \in Seq(Rounds) /\ shown' # <<>> /\ shown'[Len(shown')] = Append(text, p)
      /\ open => shown # <<>>
  <2>1. CASE ~open
    BY <1>4, <1>7, <1>8, <2>1 DEF TextTypes
  <2>2. CASE open
    <3>1. shown # <<>> /\ shown \in Seq(Rounds)
      BY <1>4, <2>2, Zenon DEF TurnIInv, OpenIsText, TextTypes
    <3>2. shown' = [shown EXCEPT ![Len(shown)] = Append(text, p)]
      BY <1>8, <2>2, Zenon
    <3> QED
      BY <3>1, <3>2, <1>7, ReplaceLast
  <2> QED
    BY <2>1, <2>2
<1>10. OpenIsText'
  BY <1>6, <1>7, <1>9, Zenon DEF OpenIsText
<1>11. ShownSaved'
  <2> SUFFICES ASSUME ~storeFailed' PROVE shown' = Append(saved', text')
    BY <1>6, Zenon DEF ShownSaved
  <2>1. shown = IF open THEN Append(saved, text) ELSE saved
    BY <1>6, Zenon DEF TurnIInv, ShownSaved
  <2>2. CASE ~open
    BY <1>6, <1>8, <2>1, <2>2
  <2>3. CASE open
    <3>1. shown = Append(saved, text) /\ saved \in Seq(Rounds) /\ text \in Rounds
      BY <1>4, <2>1, <2>3, Zenon DEF TextTypes
    <3>2. [Append(saved, text) EXCEPT ![Len(Append(saved, text))] = Append(text, p)]
           = Append(saved, Append(text, p))
      <4>1. \A r \in Rounds :
              [Append(saved, text) EXCEPT ![Len(Append(saved, text))] = r] = Append(saved, r)
        BY <3>1, ReplaceAppended
      <4> QED
        BY <4>1, <1>7, Zenon
    <3> QED
      BY <1>6, <1>8, <2>3, <3>1, <3>2, Zenon
  <2> QED
    BY <2>2, <2>3
<1>12. {pushing, wake, done, open, stopped, storeFailed, abortSent}' \subseteq BOOLEAN
  BY <1>6, Zenon DEF Turn!OnDelta, TurnIInv, Turn!TypeOK
<1>13. Turn!TypeOK'
  BY <1>2, <1>6, <1>7, <1>9, <1>12 DEF Turn!OnDelta, Turn!NextEvent, TurnIInv, Turn!TypeOK, Rounds
<1>14. Steers = Held' /\ Turn!NoLostWakeup' /\ ClosedAtEnds'
  BY HeldStays DEF Turn!OnDelta, Turn!NextEvent, TurnIInv, steersOf, Turn!NoLostWakeup, ClosedAtEnds
<1> QED
  BY <1>10, <1>11, <1>13, <1>14 DEF TurnIInv

(* message_end *)
LEMMA CommitKeeps == TurnIInv /\ Turn!OnCommit => TurnIInv'
<1> SUFFICES ASSUME TurnIInv, Turn!OnCommit
             PROVE  TurnIInv'
  OBVIOUS
<1> USE DEF Turn!steerVars, Turn!queueVars, Turn!sideVars
<1> SUFFICES ASSUME NEW t, t = Head(batch)[2]
             PROVE  TurnIInv'
  OBVIOUS
<1> DEFINE round == IF t = <<>> THEN text ELSE t
<1>1. batch \in Seq(Turn!Events) /\ batch # <<>>
  BY DEF TurnIInv, Turn!TypeOK, Turn!OnCommit, Turn!NextEvent
<1>2. Head(batch) \in Turn!Events /\ Tail(batch) \in Seq(Turn!Events) /\ batch' = Tail(batch)
  BY <1>1 DEF Turn!OnCommit, Turn!NextEvent
<1>3. t \in Turn!Texts /\ t \in Rounds
  <2>1. Head(batch)[1] \in {"commit", "failed"}
    BY DEF Turn!OnCommit, Turn!NextEvent
  <2> QED
    BY <1>2, <2>1, EventFields, TextsArePieces
<1>4. TextTypes /\ OpenIsText /\ ShownSaved
  BY TypesOfText DEF TurnIInv
<1>5. round \in Rounds /\ (round = <<>> => text = <<>>)
  BY <1>3, <1>4 DEF TextTypes
<1>6. Turn!Reconcile(t) = round
  BY <1>3, <1>4, ReconcileCompletes DEF TextTypes
<1>7. Turn!Persist(round) /\ Turn!Show(round)
  BY <1>6 DEF Turn!OnCommit
<1>8. TextTypes' /\ OpenIsText' /\ ShownSaved'
  <2> HIDE DEF round
  <2> QED
    BY <1>4, <1>5, <1>7, PersistKeeps
<1>9. {pushing, wake, done, open, stopped, storeFailed, abortSent}' \subseteq BOOLEAN
  <2>1. open' = FALSE /\ storeFailed' \in {storeFailed, TRUE}
    BY <1>7, Zenon DEF Turn!Persist
  <2> QED
    BY <2>1, Zenon DEF Turn!OnCommit, TurnIInv, Turn!TypeOK
<1>10. Turn!TypeOK'
  <2>1. at' \in {"returned", "batch"}
    BY DEF Turn!OnCommit
  <2>2. UNCHANGED <<sidecar, emitted, live, items, toSteer, heard, taken>>
    BY DEF Turn!OnCommit
  <2> QED
    BY <1>2, <1>8, <1>9, <2>1, <2>2 DEF TurnIInv, Turn!TypeOK, TextTypes, Rounds
<1>11. Steers = Held' /\ Turn!NoLostWakeup'
  BY HeldStays DEF Turn!OnCommit, TurnIInv, steersOf, Turn!NoLostWakeup
<1>12. ClosedAtEnds'
  BY <1>7, Zenon DEF Turn!Persist, ClosedAtEnds
<1> QED
  BY <1>8, <1>10, <1>11, <1>12 DEF TurnIInv

(* The ends of a turn that write what is left. *)
LEMMA PartialKeeps == TurnIInv /\ (Turn!Finish \/ Turn!Cancelled) => TurnIInv'
<1> SUFFICES ASSUME TurnIInv, Turn!Finish \/ Turn!Cancelled
             PROVE  TurnIInv'
  OBVIOUS
<1> USE DEF Turn!steerVars, Turn!queueVars, Turn!sideVars
<1>1. TextTypes /\ OpenIsText /\ ShownSaved
  BY TypesOfText DEF TurnIInv
<1>2. Turn!Persist(text) /\ UNCHANGED shown
  BY DEF Turn!Finish, Turn!Cancelled, Turn!PersistPartial
<1>3. TextTypes' /\ OpenIsText' /\ ShownSaved'
  BY <1>1, <1>2, PersistKeeps DEF TextTypes
<1>4. {pushing, wake, done, open, stopped, storeFailed, abortSent}' \subseteq BOOLEAN
  <2>1. open' = FALSE /\ storeFailed' \in {storeFailed, TRUE}
    BY <1>2, Zenon DEF Turn!Persist
  <2> QED
    BY <2>1, Zenon DEF Turn!Finish, Turn!Cancelled, Turn!Abort, TurnIInv, Turn!TypeOK
<1>5. Turn!TypeOK'
  <2>1. at' = "returned" /\ UNCHANGED <<emitted, live, items, batch, toSteer, heard, taken>>
    BY DEF Turn!Finish, Turn!Cancelled
  <2>2. sidecar' \in {sidecar, "aborted"}
    BY DEF Turn!Finish, Turn!Cancelled, Turn!Abort
  <2> QED
    BY <1>3, <1>4, <2>1, <2>2 DEF TurnIInv, Turn!TypeOK, TextTypes, Rounds
<1>6. Steers = Held' /\ Turn!NoLostWakeup'
  BY HeldStays DEF Turn!Finish, Turn!Cancelled, TurnIInv, steersOf, Turn!NoLostWakeup
<1>7. ClosedAtEnds'
  BY <1>2, Zenon DEF Turn!Persist, ClosedAtEnds
<1> QED
  BY <1>3, <1>5, <1>6, <1>7 DEF TurnIInv

LEMMA EventKeeps == TurnIInv /\ (Turn!OnFault \/ Turn!OnRunEnd \/ Turn!BatchOver) => TurnIInv'
<1> SUFFICES ASSUME TurnIInv, Turn!OnFault \/ Turn!OnRunEnd \/ Turn!BatchOver
             PROVE  TurnIInv'
  OBVIOUS
<1> USE DEF Turn!textVars, Turn!steerVars, Turn!queueVars, Turn!sideVars
<1>1. UNCHANGED textOf /\ UNCHANGED steersOf
  BY DEF Turn!OnFault, Turn!OnRunEnd, Turn!BatchOver, textOf, steersOf
<1>2. {pushing, wake, done, open, stopped, storeFailed, abortSent}' \subseteq BOOLEAN
  BY Zenon DEF Turn!OnFault, Turn!OnRunEnd, Turn!BatchOver, TurnIInv, Turn!TypeOK
<1>3. batch' \in Seq(Turn!Events)
  <2>1. batch \in Seq(Turn!Events)
    BY DEF TurnIInv, Turn!TypeOK
  <2>2. batch' = batch \/ (batch # <<>> /\ batch' = Tail(batch))
    BY DEF Turn!OnFault, Turn!OnRunEnd, Turn!BatchOver, Turn!NextEvent
  <2> QED
    BY <2>1, <2>2
<1>4. Turn!TypeOK'
  BY <1>2, <1>3 DEF Turn!OnFault, Turn!OnRunEnd, Turn!BatchOver, Turn!AfterBatch, Turn!NextEvent,
                    TurnIInv, Turn!TypeOK
<1>5. Turn!NoLostWakeup' /\ ClosedAtEnds'
  BY DEF Turn!OnFault, Turn!OnRunEnd, Turn!BatchOver, Turn!AfterBatch, Turn!NextEvent,
         TurnIInv, Turn!NoLostWakeup, ClosedAtEnds
<1> QED
  BY <1>1, <1>4, <1>5, TextStays, HeldStays DEF TurnIInv

LEMMA TurnStep == TurnIInv /\ [Turn!Next]_turnVars => TurnIInv'
<1> SUFFICES ASSUME TurnIInv, [Turn!Next]_turnVars
             PROVE  TurnIInv'
  OBVIOUS
<1>1. CASE Turn!Stream \/ Turn!Commit \/ Turn!RunEnds \/ Turn!Dies \/ Turn!PushWake \/ Turn!Stop
  BY <1>1, SidecarKeeps
<1>2. CASE SubmitSteps
  BY <1>2, SubmitKeeps
<1>3. CASE SteerSteps
  BY <1>3, SteerKeeps
<1>4. CASE DrainSteps
  BY <1>4, DrainKeeps
<1>5. CASE Turn!OnDelta
  BY <1>5, DeltaKeeps
<1>6. CASE Turn!OnCommit
  BY <1>6, CommitKeeps
<1>7. CASE Turn!OnFault \/ Turn!OnRunEnd \/ Turn!BatchOver
  BY <1>7, EventKeeps
<1>8. CASE Turn!Finish \/ Turn!Cancelled
  BY <1>8, PartialKeeps
<1>9. CASE UNCHANGED turnVars
  BY <1>9 DEF turnVars, TurnIInv, Turn!TypeOK, OpenIsText, ShownSaved, ClosedAtEnds, Held,
                  Turn!NoLostWakeup
<1> QED
  BY <1>1, <1>2, <1>3, <1>4, <1>5, <1>6, <1>7, <1>8, <1>9
  DEF Turn!Next, Turn!Loop, SubmitSteps, SteerSteps, DrainSteps

(* consumeHarnessTurn: on every way a turn ends, with its rows written, the client was
   shown what a reload shows; a message taken from the queue has reached the sidecar,
   is put back or is in hand; the loop never waits on events without a token to come. *)
THEOREM TurnIsKept == PartsSpec => []TurnKept
<1>1. PartsInit => TurnIInv
  BY TurnInit DEF PartsInit
<1>2. TurnIInv /\ [PartsNext]_vars => TurnIInv'
  <2> SUFFICES ASSUME TurnIInv, [PartsNext]_vars
               PROVE  TurnIInv'
    OBVIOUS
  <2>1. CASE InTurn(Turn!Next)
    BY <2>1, TurnStep DEF InTurn
  <2>2. CASE UNCHANGED turnVars
    BY <2>2, TurnStep
  <2> QED
    BY <2>1, <2>2 DEF PartsNext, InConnection, InTranscript, vars
<1>3. TurnIInv => TurnKept
  <2> SUFFICES ASSUME TurnIInv
               PROVE  TurnKept
    OBVIOUS
  <2>1. Turn!ShownIsStored
    <3> SUFFICES ASSUME at = "returned", ~storeFailed
                 PROVE  saved = shown
      BY DEF Turn!ShownIsStored
    <3>1. ~open
      BY DEF TurnIInv, ClosedAtEnds
    <3> QED
      BY <3>1 DEF TurnIInv, ShownSaved
  <2>2. Turn!SteerKept
    BY DEF TurnIInv, Held, Turn!SteerKept, Turn!Range, Turn!TypeOK
  <2> QED
    BY <2>1, <2>2 DEF TurnKept, TurnIInv
<1> QED
  BY <1>1, <1>2, <1>3, PTL DEF PartsSpec
-----------------------------------------------------------------------------
(* f is the function that FlattenSeq computes over the first n of ss. *)
Joins(f, ss, n) ==
  f = [i \in 1 .. n |-> IF i = 1 THEN ss[i] ELSE f[i - 1] \o ss[i]]

LEMMA LeastOf ==
  ASSUME NEW S \in SUBSET Nat, S # {}
  PROVE  \E n \in S : \A m \in S : n <= m
<1> DEFINE R == OpToRel(<, Nat)
<1>1. \A x, y \in Nat : x < y => <<x, y>> \in R
  BY DEF OpToRel
<1>2. IsWellFoundedOn(R, Nat)
  BY NatLessThanWellFounded
<1> HIDE DEF R
<1>3. PICK n \in S : \A m \in S : ~(<<m, n>> \in R)
  BY <1>2, WFMin
<1>4. ASSUME NEW m \in S
      PROVE  n <= m
  <2>1. ~(m < n)
    BY <1>1, <1>3
  <2> QED
    BY <2>1
<1> QED
  BY <1>4

LEMMA JoinsAgree ==
  ASSUME NEW ss, NEW tt, NEW f, NEW g, NEW n \in Nat, NEW k \in Nat, n <= k,
         \A i \in 1 .. n : ss[i] = tt[i], Joins(f, ss, n), Joins(g, tt, k)
  PROVE  \A i \in 1 .. n : f[i] = g[i]
<1> DEFINE Bad == {i \in 1 .. n : f[i] # g[i]}
<1>1. SUFFICES ASSUME Bad # {}
               PROVE  FALSE
  OBVIOUS
<1>2. PICK e \in Bad : \A j \in Bad : e <= j
  <2>1. Bad \in SUBSET Nat
    OBVIOUS
  <2> HIDE DEF Bad
  <2> QED
    BY <1>1, <2>1, LeastOf
<1>3. e \in 1 .. n /\ e \in 1 .. k /\ ss[e] = tt[e]
  BY <1>2
<1>4. /\ f[e] = IF e = 1 THEN ss[e] ELSE f[e - 1] \o ss[e]
      /\ g[e] = IF e = 1 THEN tt[e] ELSE g[e - 1] \o tt[e]
  BY <1>3 DEF Joins
<1>5. e # 1
  BY <1>2, <1>3, <1>4
<1>6. f[e - 1] = g[e - 1]
  BY <1>2, <1>5
<1> QED
  BY <1>2, <1>3, <1>4, <1>6

LEMMA JoinsExists ==
  ASSUME NEW T, NEW ss \in Seq(Seq(T)), NEW n \in 0 .. Len(ss)
  PROVE  \E f \in [1 .. n -> Seq(T)] : Joins(f, ss, n)
<1> DEFINE Bad == {k \in 0 .. n : ~ \E f \in [1 .. k -> Seq(T)] : Joins(f, ss, k)}
<1>0. n \in Nat /\ Len(ss) \in Nat /\ \A i \in 1 .. Len(ss) : ss[i] \in Seq(T)
  OBVIOUS
<1>1. SUFFICES ASSUME Bad # {}
               PROVE  FALSE
  BY <1>0
<1>2. PICK k \in Bad : \A j \in Bad : k <= j
  <2>1. Bad \in SUBSET Nat
    OBVIOUS
  <2> HIDE DEF Bad
  <2> QED
    BY <1>1, <2>1, LeastOf
<1>3. CASE k = 0
  <2>1. <<>> \in [1 .. 0 -> Seq(T)] /\ Joins(<<>>, ss, 0)
    BY DEF Joins
  <2> QED
    BY <1>2, <1>3, <2>1
<1>4. CASE k # 0
  <2>0. k \in 1 .. n /\ k - 1 \in 0 .. n /\ k - 1 \notin Bad
    <3>1. k \in 0 .. n
      OBVIOUS
    <3> HIDE DEF Bad
    <3> QED
      BY <1>0, <1>2, <1>4, <3>1
  <2>1. PICK f \in [1 .. k - 1 -> Seq(T)] : Joins(f, ss, k - 1)
    BY <2>0
  <2> DEFINE g == [i \in 1 .. k |-> IF i = k THEN IF k = 1 THEN ss[k] ELSE f[k - 1] \o ss[k]
                                             ELSE f[i]]
  <2>2. \A i \in 1 .. k - 1 : f[i] = IF i = 1 THEN ss[i] ELSE f[i - 1] \o ss[i]
    BY <2>1 DEF Joins
  <2>3. g \in [1 .. k -> Seq(T)]
    <3>1. ASSUME NEW i \in 1 .. k
          PROVE  g[i] \in Seq(T)
      <4>1. ss[k] \in Seq(T)
        BY <1>0, <2>0
      <4>2. CASE i = k /\ k = 1
        BY <4>1, <4>2
      <4>3. CASE i = k /\ k # 1
        <5>1. f[k - 1] \in Seq(T)
          BY <2>0, <2>1, <4>3
        <5>2. f[k - 1] \o ss[k] \in Seq(T)
          BY <4>1, <5>1
        <5> QED
          BY <4>3, <5>2
      <4>4. CASE i # k
        BY <2>0, <2>1, <4>4
      <4> QED
        BY <4>2, <4>3, <4>4
    <3> QED
      BY <3>1
  <2>4. \A i \in 1 .. k : g[i] = IF i = 1 THEN ss[i] ELSE g[i - 1] \o ss[i]
    <3>1. SUFFICES ASSUME NEW i \in 1 .. k
                   PROVE  g[i] = IF i = 1 THEN ss[i] ELSE g[i - 1] \o ss[i]
      OBVIOUS
    <3>2. CASE i = k
      <4>1. k # 1 => g[k - 1] = f[k - 1]
        BY <2>0
      <4> QED
        BY <3>2, <4>1
    <3>3. CASE i # k
      <4>1. i \in 1 .. k - 1 /\ (i # 1 => i - 1 \in 1 .. k /\ i - 1 # k)
        BY <2>0, <3>3
      <4>2. g[i] = f[i] /\ (i # 1 => g[i - 1] = f[i - 1])
        BY <4>1, <3>3
      <4> QED
        BY <2>2, <4>1, <4>2
    <3> QED
      BY <3>2, <3>3
  <2> HIDE DEF g
  <2>5. Joins(g, ss, k)
    BY <2>3, <2>4 DEF Joins
  <2> QED
    BY <1>2, <2>3, <2>5
<1> QED
  BY <1>3, <1>4

LEMMA FlattenJoins ==
  ASSUME NEW T, NEW ss \in Seq(Seq(T)), Len(ss) # 0
  PROVE  \E f \in [1 .. Len(ss) -> Seq(T)] : Joins(f, ss, Len(ss)) /\ Transcript!FlattenSeq(ss) = f[Len(ss)]
<1> DEFINE h == CHOOSE f : Joins(f, ss, Len(ss))
<1>1. Transcript!FlattenSeq(ss) = h[Len(ss)]
  BY DEF Transcript!FlattenSeq, Joins
<1>2. PICK f \in [1 .. Len(ss) -> Seq(T)] : Joins(f, ss, Len(ss))
  BY JoinsExists
<1>3. Joins(h, ss, Len(ss))
  BY <1>2
<1> HIDE DEF h
<1>4. Len(ss) \in 1 .. Len(ss) /\ Len(ss) \in Nat
  OBVIOUS
<1>5. f[Len(ss)] = h[Len(ss)]
  BY <1>2, <1>3, <1>4, JoinsAgree
<1> QED
  BY <1>1, <1>2, <1>5

LEMMA FlattenNext ==
  ASSUME NEW T, NEW ss \in Seq(Seq(T)), NEW s \in Seq(T)
  PROVE  /\ Transcript!FlattenSeq(<<>>) = <<>>
         /\ Transcript!FlattenSeq(ss) \in Seq(T)
         /\ Transcript!FlattenSeq(Append(ss, s)) = Transcript!FlattenSeq(ss) \o s
<1> DEFINE n == Len(ss)  tt == Append(ss, s)
<1>1. /\ n \in Nat /\ tt \in Seq(Seq(T)) /\ Len(tt) = n + 1 /\ tt[n + 1] = s
      /\ \A i \in 1 .. n : tt[i] = ss[i]
  OBVIOUS
<1> HIDE DEF tt
<1>2. Transcript!FlattenSeq(<<>>) = <<>>
  BY DEF Transcript!FlattenSeq
<1> HIDE DEF n
<1>3. Transcript!FlattenSeq(ss) \in Seq(T)
  <2>1. CASE n = 0
    <3>1. ss = <<>> /\ <<>> \in Seq(T)
      BY <2>1 DEF n
    <3> QED
      BY <1>2, <3>1, Zenon
  <2>2. CASE n # 0
    <3>1. PICK f \in [1 .. n -> Seq(T)] : Transcript!FlattenSeq(ss) = f[n]
      BY <2>2, FlattenJoins DEF n
    <3> QED
      BY <1>1, <2>2, <3>1
  <2> QED
    BY <2>1, <2>2
<1>4. PICK g : Joins(g, tt, n + 1) /\ Transcript!FlattenSeq(tt) = g[n + 1]
  <2>1. Len(tt) # 0
    BY <1>1
  <2> QED
    BY <1>1, <2>1, FlattenJoins
<1>5. g[n + 1] = IF n + 1 = 1 THEN s ELSE g[n] \o s
  <2>1. n + 1 \in 1 .. n + 1 /\ (n + 1) - 1 = n
    BY <1>1
  <2>2. g[n + 1] = IF n + 1 = 1 THEN tt[n + 1] ELSE g[(n + 1) - 1] \o tt[n + 1]
    BY <1>4, <2>1 DEF Joins
  <2> QED
    BY <1>1, <2>1, <2>2
<1>6. CASE n = 0
  <2>1. ss = <<>> /\ <<>> \o s = s
    BY <1>6 DEF n
  <2> QED
    <3>1. Transcript!FlattenSeq(tt) = s
      BY <1>4, <1>5, <1>6
    <3>2. Transcript!FlattenSeq(ss) = <<>>
      BY <1>2, <2>1, Zenon
    <3> QED
      BY <1>2, <1>3, <2>1, <3>1, <3>2 DEF tt
<1>7. CASE n # 0
  <2>1. PICK f : Joins(f, ss, n) /\ Transcript!FlattenSeq(ss) = f[n]
    BY <1>7, FlattenJoins DEF n
  <2>2. n \in 1 .. n /\ n <= n + 1
    BY <1>1, <1>7
  <2>3. f[n] = g[n]
    <3>1. \A i \in 1 .. n : ss[i] = tt[i]
      BY <1>1
    <3>2. n \in Nat /\ n + 1 \in Nat /\ Joins(f, ss, n) /\ Joins(g, tt, n + 1)
      BY <1>1, <1>4, <2>1
    <3> QED
      BY <2>2, <3>1, <3>2, JoinsAgree
  <2> QED
    <3>1. Transcript!FlattenSeq(tt) = g[n] \o s
      BY <1>1, <1>4, <1>5, <1>7
    <3> QED
      BY <1>2, <1>3, <2>1, <2>3, <3>1 DEF tt
<1> QED
  BY <1>2, <1>3, <1>6, <1>7 DEF tt

-----------------------------------------------------------------------------
LEMMA InRoleNone ==
  ASSUME NEW roles
  PROVE  Transcript!InRole(<<>>, roles) = <<>>
<1> DEFINE None == [i \in DOMAIN <<>> |-> IF <<>>[i].role \in roles THEN <<<<>>[i]>> ELSE <<>>]
<1>1. None = <<>>
  OBVIOUS
<1>2. Transcript!InRole(<<>>, roles) = Transcript!FlattenSeq(None)
  BY DEF Transcript!InRole
<1> HIDE DEF None
<1>3. Transcript!FlattenSeq(<<>>) = <<>>
  BY DEF Transcript!FlattenSeq
<1> QED
  BY <1>1, <1>2, <1>3, Zenon

(* A row more is one more of its role. *)
LEMMA InRoleNext ==
  ASSUME NEW R, NEW s \in Seq(R), NEW e \in R, NEW roles
  PROVE  /\ Transcript!InRole(s, roles) \in Seq({r \in R : r.role \in roles})
         /\ Transcript!InRole(Append(s, e), roles) =
              IF e.role \in roles THEN Append(Transcript!InRole(s, roles), e)
                                  ELSE Transcript!InRole(s, roles)
<1> DEFINE T == {r \in R : r.role \in roles}
           One(r) == IF r.role \in roles THEN <<r>> ELSE <<>>
           Ones(t) == [i \in DOMAIN t |-> One(t[i])]
<1>1. ASSUME NEW r \in R
      PROVE  One(r) \in Seq(T)
  <2>1. CASE r.role \in roles
    <3>1. r \in T
      BY <2>1
    <3> HIDE DEF T
    <3>2. <<r>> \in Seq(T)
      BY <3>1
    <3> QED
      BY <2>1, <3>2
  <2>2. CASE r.role \notin roles
    BY <2>2
  <2> QED
    BY <2>1, <2>2
<1>2. /\ Len(s) \in Nat /\ DOMAIN s = 1 .. Len(s) /\ \A i \in 1 .. Len(s) : s[i] \in R
      /\ DOMAIN Append(s, e) = 1 .. Len(s) + 1 /\ Append(s, e)[Len(s) + 1] = e
      /\ \A i \in 1 .. Len(s) : Append(s, e)[i] = s[i]
  OBVIOUS
<1>3. \A t : Transcript!InRole(t, roles) = Transcript!FlattenSeq(Ones(t))
  BY DEF Transcript!InRole
<1> HIDE DEF T, One
<1>5. Ones(s) \in Seq(Seq(T)) /\ Len(Ones(s)) = Len(s)
  BY <1>1, <1>2
<1>6. Ones(Append(s, e)) = Append(Ones(s), One(e))
  BY <1>2, <1>5
<1> HIDE DEF Ones
<1>7. One(e) \in Seq(T)
  BY <1>1
<1>8. /\ Transcript!FlattenSeq(Ones(s)) \in Seq(T)
      /\ Transcript!FlattenSeq(Append(Ones(s), One(e))) = Transcript!FlattenSeq(Ones(s)) \o One(e)
  BY <1>5, <1>7, FlattenNext
<1>9. Transcript!InRole(Append(s, e), roles) = Transcript!InRole(s, roles) \o One(e)
  BY <1>3, <1>6, <1>8
<1>10. Transcript!InRole(s, roles) \in Seq(T)
  BY <1>3, <1>8
<1> HIDE DEF Transcript!InRole
<1>11. \A u \in Seq(T) : u \o <<>> = u /\ (e \in T => u \o <<e>> = Append(u, e))
  BY ConcatEmptySeq, AppendIsConcat
<1> QED
  BY <1>9, <1>10, <1>11 DEF One, T
-----------------------------------------------------------------------------
(* The rows: the messages sent, by number, and what was answered and injected. *)
RowsUpto(n) == [role : {"user"}, msg : 1 .. n] \cup [role : {"screenshot", "assistant"}, msg : {0}]
Starting == {"ensure", "rewind", "submit"}

TranscriptTypes ==
  /\ rows \in Seq(RowsUpto(sentMsgs))
  /\ made \in 0 .. MaxConvs /\ sentMsgs \in 0 .. MaxSent /\ turns \in 0 .. MaxTurns
  /\ convs \in [1 .. MaxConvs -> Seq(1 .. sentMsgs)]
  /\ stored \in 0 .. made /\ sessions \in 0 .. made /\ using \in 0 .. made
  /\ stage \in {"idle", "run", "record"} \cup Starting
  /\ sending \in 0 .. sentMsgs /\ (stage # "idle" => sending # 0)

(* A conversation to come is empty; a turn past its ensure runs on the one that is
   stored, which is the one the sidecar knows the session by, if it does. *)
ConvsHeld ==
  /\ \A c \in 1 .. MaxConvs : c > made => convs[c] = <<>>
  /\ stage \in {"rewind", "submit", "run", "record"} => using = stored /\ stored # 0
  /\ sessions \in {0, stored}

(* The stored conversation has the messages of s, and no fewer rows count for a rewind. *)
StoredConv == IF stored = 0 THEN <<>> ELSE convs[stored]
LastSent == sentMsgs >= 1 /\ StoredConv = Append(Transcript!MsgsOf(rows), sentMsgs)
Agrees(s) ==
  /\ StoredConv = Transcript!MsgsOf(s)
  /\ Len(Transcript!MsgsOf(s)) <= Len(Transcript!UserRows(s))

(* While turns are plain: between them, and in a run, all rows are in the conversation;
   before the submit, all but the one with the message of the turn; and while a steer is
   recorded the conversation is one message ahead. *)
StraightHeld ==
  straight =>
    /\ stage \in {"idle", "run"} => Agrees(rows)
    /\ stage = "record" =>
         LastSent /\ Len(Transcript!MsgsOf(rows)) <= Len(Transcript!UserRows(rows))
    /\ stage \in Starting =>
         \E s \in Seq(RowsUpto(sentMsgs)) :
           rows = Append(s, Transcript!Row("user", sending)) /\ Agrees(s)

TranscriptIInv == TranscriptTypes /\ ConvsHeld /\ straight \in BOOLEAN /\ StraightHeld
-----------------------------------------------------------------------------
LEMMA RowsGrow ==
  ASSUME NEW n \in Nat
  PROVE  /\ RowsUpto(n) \subseteq RowsUpto(n + 1) /\ Seq(RowsUpto(n)) \subseteq Seq(RowsUpto(n + 1))
         /\ Seq(1 .. n) \subseteq Seq(1 .. n + 1)
         /\ \A m \in 1 .. n : Transcript!Row("user", m) \in RowsUpto(n)
         /\ Transcript!Row("screenshot", 0) \in RowsUpto(n)
         /\ Transcript!Row("assistant", 0) \in RowsUpto(n)
<1>1. RowsUpto(n) \subseteq RowsUpto(n + 1) /\ 1 .. n \subseteq 1 .. n + 1
  BY DEF RowsUpto
<1>2. Seq(RowsUpto(n)) \subseteq Seq(RowsUpto(n + 1)) /\ Seq(1 .. n) \subseteq Seq(1 .. n + 1)
  BY <1>1, SeqMonotonic
<1> QED
  BY <1>1, <1>2 DEF RowsUpto, Transcript!Row

LEMMA MsgsNext ==
  ASSUME NEW n \in Nat, NEW s \in Seq(RowsUpto(n)), NEW e \in RowsUpto(n)
  PROVE  /\ Transcript!MsgsOf(s) \in Seq(1 .. n)
         /\ Transcript!MsgsOf(Append(s, e)) =
              IF e.role = "user" THEN Append(Transcript!MsgsOf(s), e.msg) ELSE Transcript!MsgsOf(s)
         /\ Transcript!UserRows(s) \in Seq(RowsUpto(n))
         /\ Transcript!UserRows(Append(s, e)) =
              IF e.role = "assistant" THEN Transcript!UserRows(s)
                                      ELSE Append(Transcript!UserRows(s), e)
<1> DEFINE mine == Transcript!InRole(s, {"user"})
           next == Transcript!InRole(Append(s, e), {"user"})
<1>0. ASSUME NEW roles
      PROVE  /\ Transcript!InRole(s, roles) \in Seq({r \in RowsUpto(n) : r.role \in roles})
             /\ Transcript!InRole(Append(s, e), roles) =
                  IF e.role \in roles THEN Append(Transcript!InRole(s, roles), e)
                                      ELSE Transcript!InRole(s, roles)
  <2> DEFINE R == RowsUpto(n)
  <2>1. s \in Seq(R) /\ e \in R
    OBVIOUS
  <2> HIDE DEF R
  <2>2. /\ Transcript!InRole(s, roles) \in Seq({r \in R : r.role \in roles})
        /\ Transcript!InRole(Append(s, e), roles) =
             IF e.role \in roles THEN Append(Transcript!InRole(s, roles), e)
                                 ELSE Transcript!InRole(s, roles)
    BY <2>1, InRoleNext
  <2> QED
    BY <2>2 DEF R
<1>1. /\ mine \in Seq({r \in RowsUpto(n) : r.role \in {"user"}})
      /\ next = IF e.role \in {"user"} THEN Append(mine, e) ELSE mine
  BY <1>0
<1>2. \A r \in RowsUpto(n) : r.role \in {"user"} => r.msg \in 1 .. n
  BY DEF RowsUpto
<1>3. /\ Transcript!MsgsOf(s) = [i \in DOMAIN mine |-> mine[i].msg]
      /\ Transcript!MsgsOf(Append(s, e)) = [i \in DOMAIN next |-> next[i].msg]
  BY DEF Transcript!MsgsOf
<1> HIDE DEF mine, next
<1>4. /\ Len(mine) \in Nat /\ DOMAIN mine = 1 .. Len(mine)
      /\ \A i \in 1 .. Len(mine) : mine[i].msg \in 1 .. n
  BY <1>1, <1>2
<1>5. Transcript!MsgsOf(s) \in Seq(1 .. n) /\ Len(Transcript!MsgsOf(s)) = Len(mine)
  BY <1>3, <1>4
<1>6. ASSUME e.role = "user"
      PROVE  Transcript!MsgsOf(Append(s, e)) = Append(Transcript!MsgsOf(s), e.msg)
  <2>1. e.msg \in 1 .. n /\ next = Append(mine, e)
    BY <1>1, <1>2, <1>6
  <2>2. /\ DOMAIN next = 1 .. Len(mine) + 1 /\ next[Len(mine) + 1] = e
        /\ \A i \in 1 .. Len(mine) : next[i] = mine[i]
    BY <1>1, <2>1
  <2>3. Transcript!MsgsOf(Append(s, e)) = Append(Transcript!MsgsOf(s), e.msg)
    BY <1>3, <1>4, <1>5, <2>1, <2>2
  <2> QED
    BY <2>3
<1>7. e.role # "user" => Transcript!MsgsOf(Append(s, e)) = Transcript!MsgsOf(s)
  BY <1>1, <1>3
<1>8. /\ Transcript!UserRows(s) \in Seq({r \in RowsUpto(n) : r.role \in {"user", "screenshot"}})
      /\ Transcript!UserRows(Append(s, e)) =
           IF e.role \in {"user", "screenshot"} THEN Append(Transcript!UserRows(s), e)
                                                ELSE Transcript!UserRows(s)
  BY <1>0 DEF Transcript!UserRows, Transcript!UserRoles
<1>9. e.role \in {"user", "screenshot", "assistant"}
  BY DEF RowsUpto
<1>10. Transcript!UserRows(s) \in Seq(RowsUpto(n))
  <2>1. {r \in RowsUpto(n) : r.role \in {"user", "screenshot"}} \subseteq RowsUpto(n)
    OBVIOUS
  <2> QED
    BY <1>8, <2>1, SeqMonotonic
<1> QED
  BY <1>5, <1>6, <1>7, <1>8, <1>9, <1>10

(* What a turn keeps of the conversation. *)
LEMMA KeepUser ==
  ASSUME NEW n \in Nat, rows \in Seq(RowsUpto(n))
  PROVE  /\ Transcript!KeepUserTurns \in Nat
         /\ \A s \in Seq(RowsUpto(n)), m \in 1 .. n :
              rows = Append(s, Transcript!Row("user", m)) =>
                Transcript!KeepUserTurns = Len(Transcript!UserRows(s))
<1>1. ASSUME NEW s \in Seq(RowsUpto(n)), NEW e \in RowsUpto(n), rows = Append(s, e)
      PROVE  /\ Transcript!KeepUserTurns = Len(Transcript!UserRows(s))
             /\ Transcript!KeepUserTurns \in Nat
  <2>1. /\ Transcript!UserRows(s) \in Seq(RowsUpto(n))
        /\ Transcript!UserRows(rows) = IF e.role = "assistant" THEN Transcript!UserRows(s)
                                       ELSE Append(Transcript!UserRows(s), e)
    BY <1>1, MsgsNext
  <2>2. rows # <<>> /\ Transcript!Last(rows) = e
    BY <1>1 DEF Transcript!Last
  <2>3. e.role \in {"user", "screenshot", "assistant"}
    BY DEF RowsUpto
  <2>4. Transcript!EndsOnUser <=> e.role # "assistant"
    BY <2>2, <2>3 DEF Transcript!EndsOnUser, Transcript!UserRoles
  <2>5. CASE e.role = "assistant"
    BY <2>1, <2>4, <2>5 DEF Transcript!KeepUserTurns
  <2>6. CASE e.role # "assistant"
    <3>1. Len(Append(Transcript!UserRows(s), e)) = Len(Transcript!UserRows(s)) + 1
      BY <2>1
    <3>2. Len(Transcript!UserRows(s)) \in Nat
      BY <2>1
    <3> QED
      BY <2>1, <2>4, <2>6, <3>1, <3>2 DEF Transcript!KeepUserTurns
  <2> QED
    BY <2>5, <2>6
<1>2. CASE rows = <<>>
  <2>1. Transcript!UserRows(rows) = <<>>
    BY <1>2, InRoleNone DEF Transcript!UserRows
  <2>2. Transcript!KeepUserTurns = 0
    BY <1>2, <2>1 DEF Transcript!KeepUserTurns, Transcript!EndsOnUser
  <2>3. ASSUME NEW s \in Seq(RowsUpto(n)), NEW e
        PROVE  rows # Append(s, e)
    BY <1>2, AppendProperties
  <2> QED
    BY <2>2, <2>3
<1>3. CASE rows # <<>>
  <2>1. PICK s \in Seq(RowsUpto(n)), e \in RowsUpto(n) : rows = Append(s, e)
    BY <1>3, SequenceEmptyOrAppend
  <2>2. Transcript!KeepUserTurns \in Nat
    BY <1>1, <2>1
  <2>3. \A m \in 1 .. n : Transcript!Row("user", m) \in RowsUpto(n)
    BY RowsGrow
  <2> QED
    BY <1>1, <2>2, <2>3
<1> QED
  BY <1>2, <1>3

-----------------------------------------------------------------------------
LEMMA TranscriptInit ==
  ASSUME Transcript!Init
  PROVE  TranscriptIInv
<1> USE TranscriptAssumption DEF Transcript!Init
<1>1. TranscriptTypes
  BY DEF TranscriptTypes, Starting
<1>2. ConvsHeld
  BY DEF ConvsHeld
<1>3. Transcript!MsgsOf(<<>>) = <<>> /\ Transcript!UserRows(<<>>) = <<>>
  <2>1. \A roles : Transcript!InRole(<<>>, roles) = <<>>
    BY InRoleNone
  <2> QED
    BY <2>1 DEF Transcript!MsgsOf, Transcript!UserRows
<1>4. StraightHeld
  BY <1>3 DEF StraightHeld, Agrees, StoredConv, LastSent, Starting
<1> QED
  BY <1>1, <1>2, <1>4 DEF TranscriptIInv

-----------------------------------------------------------------------------
(* The turn begins: the rows with its message, and what is sent. *)
LEMMA BeginKeeps ==
  ASSUME TranscriptIInv, Transcript!Begin
  PROVE  TranscriptIInv'
<1> USE TranscriptAssumption
<1>1. /\ rows \in Seq(RowsUpto(sentMsgs)) /\ sentMsgs \in Nat /\ sentMsgs + 1 \in Nat
      /\ stage = "idle" /\ stage' = "ensure" /\ turns < MaxTurns /\ turns' = turns + 1
      /\ UNCHANGED <<convs, made, stored, sessions, using>>
  BY DEF TranscriptIInv, TranscriptTypes, Transcript!Begin
<1>2. CASE Transcript!Fresh
  <2>1. /\ sentMsgs' = sentMsgs + 1 /\ sending' = sentMsgs + 1 /\ sentMsgs < MaxSent
        /\ rows' = Append(rows, Transcript!Row("user", sentMsgs + 1))
    BY <1>2 DEF Transcript!Fresh
  <2>2. straight' = straight
    BY <1>2, Zenon DEF Transcript!Fresh
  <2>3. /\ RowsUpto(sentMsgs) \subseteq RowsUpto(sentMsgs')
        /\ Seq(RowsUpto(sentMsgs)) \subseteq Seq(RowsUpto(sentMsgs'))
        /\ Seq(1 .. sentMsgs) \subseteq Seq(1 .. sentMsgs')
        /\ Transcript!Row("user", sentMsgs + 1) \in RowsUpto(sentMsgs')
    <3>1. Transcript!Row("user", sentMsgs + 1) \in RowsUpto(sentMsgs + 1)
      BY <1>1, RowsGrow
    <3>2. /\ RowsUpto(sentMsgs) \subseteq RowsUpto(sentMsgs + 1)
          /\ Seq(RowsUpto(sentMsgs)) \subseteq Seq(RowsUpto(sentMsgs + 1))
          /\ Seq(1 .. sentMsgs) \subseteq Seq(1 .. sentMsgs + 1)
      BY <1>1, RowsGrow
    <3> QED
      BY <2>1, <3>1, <3>2
  <2>4. rows' \in Seq(RowsUpto(sentMsgs')) /\ rows \in Seq(RowsUpto(sentMsgs'))
    BY <1>1, <2>1, <2>3
  <2>5. TranscriptTypes'
    BY <1>1, <2>1, <2>3, <2>4 DEF TranscriptIInv, TranscriptTypes, Starting
  <2>6. ConvsHeld'
    BY <1>1 DEF TranscriptIInv, ConvsHeld
  <2>7. StraightHeld'
    BY <1>1, <2>1, <2>2, <2>4 DEF TranscriptIInv, StraightHeld, Agrees, StoredConv, Starting
  <2> QED
    BY <2>2, <2>5, <2>6, <2>7, Zenon DEF TranscriptIInv
<1>3. CASE Transcript!Retry \/ Transcript!Continue
  <2>1. sentMsgs' = sentMsgs
    BY <1>3, Zenon DEF Transcript!Retry, Transcript!Continue
  <2>2. straight' = FALSE
    BY <1>3, Zenon DEF Transcript!Retry, Transcript!Continue
  <2>3. rows' \in Seq(RowsUpto(sentMsgs)) /\ sending' \in 1 .. sentMsgs
    <3>1. CASE Transcript!Retry
      <4>1. PICK i \in DOMAIN rows : /\ rows[i].role = "user" /\ rows' = SubSeq(rows, 1, i)
                                     /\ sending' = rows[i].msg
        BY <3>1 DEF Transcript!Retry
      <4>2. i \in 1 .. Len(rows) /\ rows[i] \in RowsUpto(sentMsgs)
        BY <1>1
      <4>3. rows[i].msg \in 1 .. sentMsgs
        BY <4>1, <4>2 DEF RowsUpto
      <4>4. SubSeq(rows, 1, i) \in Seq(RowsUpto(sentMsgs))
        BY <1>1, <4>2, SubSeqProperties
      <4> QED
        BY <4>1, <4>3, <4>4
    <3>2. CASE Transcript!Continue
      <4> DEFINE R == RowsUpto(sentMsgs)
                 mine == Transcript!InRole(rows, {"user"})
      <4>1. rows' = rows /\ rows # <<>> /\ mine # <<>> /\ sending' = Transcript!Last(mine).msg
        BY <3>2 DEF Transcript!Continue
      <4>2. rows \in Seq(R)
        BY <1>1
      <4>3. \A r \in {r \in R : r.role \in {"user"}} : r.msg \in 1 .. sentMsgs
        BY DEF RowsUpto
      <4> HIDE DEF R
      <4>4. PICK e \in R : TRUE
        BY <4>1, <4>2
      <4>5. mine \in Seq({r \in R : r.role \in {"user"}})
        BY <4>2, <4>4, InRoleNext
      <4> HIDE DEF mine
      <4>6. Transcript!Last(mine) \in {r \in R : r.role \in {"user"}}
        BY <4>1, <4>5 DEF Transcript!Last
      <4> QED
        BY <1>1, <4>1, <4>3, <4>6
    <3> QED
      BY <1>3, <3>1, <3>2
  <2>4. TranscriptTypes'
    BY <1>1, <2>1, <2>3 DEF TranscriptIInv, TranscriptTypes, Starting
  <2>5. ConvsHeld'
    BY <1>1 DEF TranscriptIInv, ConvsHeld
  <2>6. StraightHeld'
    BY <2>2 DEF StraightHeld
  <2> QED
    BY <2>2, <2>4, <2>5, <2>6, Zenon DEF TranscriptIInv
<1> QED
  BY <1>2, <1>3 DEF Transcript!Begin

(* With the messages of the turns before, the conversation is not rewound. *)
LEMMA RewindKeeps ==
  ASSUME TranscriptIInv, Transcript!Rewind
  PROVE  TranscriptIInv'
<1> USE TranscriptAssumption DEF TranscriptIInv
<1> DEFINE n == Len(convs[using])
           keep == Transcript!KeepUserTurns
<1>1. /\ stage = "rewind" /\ stage' = "submit" /\ using = stored /\ stored \in 1 .. made
      /\ UNCHANGED <<rows, sending, sentMsgs, turns>>
  BY DEF Transcript!Rewind, ConvsHeld, TranscriptTypes
<1>2. straight' = straight
  BY Zenon DEF Transcript!Rewind
<1>3. n \in Nat /\ keep \in Nat /\ sentMsgs \in Nat /\ convs[using] \in Seq(1 .. sentMsgs)
  <2>1. rows \in Seq(RowsUpto(sentMsgs)) /\ sentMsgs \in Nat
    BY DEF TranscriptTypes
  <2>2. convs[using] \in Seq(1 .. sentMsgs)
    BY <1>1 DEF TranscriptTypes
  <2> QED
    BY <2>1, <2>2, KeepUser
<1>4. CASE n <= keep
  <2>1. UNCHANGED <<convs, made, stored, sessions, using>>
    BY <1>4 DEF Transcript!Rewind
  <2>2. TranscriptTypes' /\ ConvsHeld'
    BY <1>1, <2>1 DEF TranscriptTypes, ConvsHeld, Starting
  <2>3. StraightHeld'
    BY <1>1, <1>2, <2>1 DEF StraightHeld, Agrees, StoredConv, Starting
  <2> QED
    BY <1>2, <2>2, <2>3, Zenon
<1>5. CASE ~(n <= keep)
  <2>1. ~straight
    <3>1. SUFFICES ASSUME straight
                   PROVE  FALSE
      OBVIOUS
    <3>2. PICK s \in Seq(RowsUpto(sentMsgs)) :
            rows = Append(s, Transcript!Row("user", sending)) /\ Agrees(s)
      BY <1>1, <3>1 DEF StraightHeld, Starting
    <3>3. keep = Len(Transcript!UserRows(s))
      <4>1. sending \in 1 .. sentMsgs /\ rows \in Seq(RowsUpto(sentMsgs))
        BY <1>1 DEF TranscriptTypes
      <4> HIDE DEF keep
      <4>2. \A t \in Seq(RowsUpto(sentMsgs)), m \in 1 .. sentMsgs :
              rows = Append(t, Transcript!Row("user", m)) => keep = Len(Transcript!UserRows(t))
        BY <1>3, <4>1, KeepUser DEF keep
      <4> QED
        BY <3>2, <4>1, <4>2
    <3>4. n <= Len(Transcript!UserRows(s))
      BY <1>1, <3>2 DEF Agrees, StoredConv
    <3> QED
      BY <1>5, <3>3, <3>4
  <2>2. /\ made < MaxConvs /\ made' = made + 1 /\ using' = made + 1 /\ stored' = made + 1
        /\ convs' = [convs EXCEPT ![made + 1] = SubSeq(convs[using], 1, Transcript!KeptOf(n, keep))]
        /\ sessions' = IF sessions = using THEN made + 1 ELSE sessions
    BY <1>5 DEF Transcript!Rewind, Transcript!StoreFork
  <2>3. Transcript!KeptOf(n, keep) \in 0 .. n
    BY <1>3, <1>5 DEF Transcript!KeptOf
  <2>4. SubSeq(convs[using], 1, Transcript!KeptOf(n, keep)) \in Seq(1 .. sentMsgs)
    BY <1>3, <2>3, SubSeqProperties
  <2> HIDE DEF n, keep
  <2>5. TranscriptTypes'
    BY <1>1, <2>2, <2>4 DEF TranscriptTypes, Starting
  <2>6. ConvsHeld'
    BY <1>1, <2>2 DEF TranscriptTypes, ConvsHeld
  <2>7. StraightHeld'
    BY <1>2, <2>1 DEF StraightHeld
  <2> QED
    BY <1>2, <2>5, <2>6, <2>7, Zenon
<1> QED
  BY <1>4, <1>5

LEMMA EnsureKeeps ==
  ASSUME TranscriptIInv, Transcript!Ensure
  PROVE  TranscriptIInv'
<1> USE TranscriptAssumption DEF TranscriptIInv
<1>1. /\ stage = "ensure" /\ stage' = "rewind" /\ using' \in 1 .. MaxConvs
      /\ sessions' = using' /\ stored' = using'
      /\ UNCHANGED <<rows, convs, sending, sentMsgs, turns>>
      /\ \/ using' = stored /\ stored # 0 /\ made' = made
         \/ stored = 0 /\ using' = made + 1 /\ made' = made + 1
  BY DEF Transcript!Ensure, Transcript!Found, TranscriptTypes, ConvsHeld
<1>2. straight' = straight
  BY Zenon DEF Transcript!Ensure
<1>3. made' \in 0 .. MaxConvs /\ using' \in 1 .. made' /\ made <= made'
  BY <1>1 DEF TranscriptTypes
<1>4. TranscriptTypes'
  BY <1>1, <1>3 DEF TranscriptTypes, Starting
<1>5. ConvsHeld'
  BY <1>1, <1>3 DEF ConvsHeld, TranscriptTypes
<1>6. convs'[stored'] = StoredConv
  BY <1>1, <1>3 DEF StoredConv, ConvsHeld, TranscriptTypes
<1>7. StoredConv' = StoredConv
  BY <1>3, <1>1, <1>6 DEF StoredConv
<1>8. StraightHeld'
  BY <1>1, <1>2, <1>7 DEF StraightHeld, Agrees, Starting
<1> QED
  BY <1>2, <1>4, <1>5, <1>8, Zenon

LEMMA SubmitTurnKeeps ==
  ASSUME TranscriptIInv, Transcript!Submit
  PROVE  TranscriptIInv'
<1> USE TranscriptAssumption DEF TranscriptIInv
<1>1. /\ stage = "submit" /\ stage' = "run" /\ using = stored /\ stored \in 1 .. made
      /\ convs' = [convs EXCEPT ![stored] = Append(convs[stored], sending)]
      /\ UNCHANGED <<rows, made, stored, sessions, using, sending, sentMsgs, turns>>
  BY DEF Transcript!Submit, ConvsHeld, TranscriptTypes
<1>2. straight' = straight
  BY Zenon DEF Transcript!Submit
<1>3. stored \in 1 .. MaxConvs /\ sending \in 1 .. sentMsgs /\ convs[stored] \in Seq(1 .. sentMsgs)
  <2>1. stored \in 1 .. MaxConvs /\ convs \in [1 .. MaxConvs -> Seq(1 .. sentMsgs)]
    BY <1>1 DEF TranscriptTypes
  <2>2. sending \in 1 .. sentMsgs
    BY <1>1 DEF TranscriptTypes
  <2> QED
    BY <2>1, <2>2
<1>4. TranscriptTypes'
  BY <1>1, <1>3 DEF TranscriptTypes, Starting
<1>5. ConvsHeld'
  BY <1>1, <1>3 DEF ConvsHeld, TranscriptTypes
<1>6. ASSUME straight
      PROVE  Agrees(rows)'
  <2>1. PICK s \in Seq(RowsUpto(sentMsgs)) :
          rows = Append(s, Transcript!Row("user", sending)) /\ Agrees(s)
    BY <1>1, <1>6 DEF StraightHeld, Starting
  <2>2. sentMsgs \in Nat /\ Transcript!Row("user", sending) \in RowsUpto(sentMsgs)
    BY <1>3, RowsGrow DEF TranscriptTypes
  <2>3. /\ Transcript!MsgsOf(s) \in Seq(1 .. sentMsgs)
        /\ Transcript!MsgsOf(rows) = Append(Transcript!MsgsOf(s), sending)
        /\ Transcript!UserRows(s) \in Seq(RowsUpto(sentMsgs))
        /\ Transcript!UserRows(rows) = Append(Transcript!UserRows(s), Transcript!Row("user", sending))
    BY <2>1, <2>2, MsgsNext DEF Transcript!Row
  <2>4. /\ Len(Transcript!MsgsOf(rows)) = Len(Transcript!MsgsOf(s)) + 1
        /\ Len(Transcript!UserRows(rows)) = Len(Transcript!UserRows(s)) + 1
        /\ Len(Transcript!MsgsOf(s)) \in Nat /\ Len(Transcript!UserRows(s)) \in Nat
    BY <1>3, <2>2, <2>3, AppendProperties
  <2>5. StoredConv' = Append(StoredConv, sending)
    BY <1>1, <1>3 DEF StoredConv, TranscriptTypes
  <2> QED
    BY <1>1, <2>1, <2>3, <2>4, <2>5 DEF Agrees
<1>7. StraightHeld'
  BY <1>1, <1>2, <1>6 DEF StraightHeld, Starting
<1> QED
  BY <1>2, <1>4, <1>5, <1>7, Zenon

(* A message the sidecar takes for the run: its row is to come, or it never will. *)
LEMMA SteerTurnKeeps ==
  ASSUME TranscriptIInv, Transcript!Steer \/ Transcript!SteerFails
  PROVE  TranscriptIInv'
<1> USE TranscriptAssumption DEF TranscriptIInv
<1>1. /\ stage = "run" /\ using = stored /\ stored \in 1 .. made /\ sentMsgs < MaxSent
      /\ sentMsgs' = sentMsgs + 1 /\ stage' \in {"run", "record"}
      /\ convs' = [convs EXCEPT ![stored] = Append(convs[stored], sentMsgs + 1)]
      /\ UNCHANGED <<rows, made, stored, sessions, using, sending, turns>>
  BY DEF Transcript!Steer, Transcript!SteerFails, Transcript!SteerTaken, ConvsHeld, TranscriptTypes
<1>2. (stage' = "record" /\ straight' = straight) \/ straight' = FALSE
  BY Zenon DEF Transcript!Steer, Transcript!SteerFails
<1>3. /\ sentMsgs \in Nat /\ sentMsgs + 1 \in Nat /\ sentMsgs + 1 \in 1 .. sentMsgs + 1
      /\ stored \in 1 .. MaxConvs
  BY <1>1 DEF TranscriptTypes
<1>4. /\ Seq(RowsUpto(sentMsgs)) \subseteq Seq(RowsUpto(sentMsgs + 1))
      /\ Seq(1 .. sentMsgs) \subseteq Seq(1 .. sentMsgs + 1)
  BY <1>3, RowsGrow
<1>5. /\ rows \in Seq(RowsUpto(sentMsgs + 1))
      /\ \A c \in 1 .. MaxConvs : convs[c] \in Seq(1 .. sentMsgs + 1)
      /\ convs \in [1 .. MaxConvs -> Seq(1 .. sentMsgs + 1)]
  <2>1. rows \in Seq(RowsUpto(sentMsgs)) /\ convs \in [1 .. MaxConvs -> Seq(1 .. sentMsgs)]
    BY DEF TranscriptTypes
  <2>2. rows \in Seq(RowsUpto(sentMsgs + 1))
    BY <1>4, <2>1
  <2>3. \A c \in 1 .. MaxConvs : convs[c] \in Seq(1 .. sentMsgs + 1)
    BY <1>4, <2>1
  <2>4. convs \in [1 .. MaxConvs -> Seq(1 .. sentMsgs + 1)]
    BY <2>1, <2>3
  <2> QED
    BY <2>2, <2>3, <2>4
<1>6. TranscriptTypes'
  <2>1. convs' \in [1 .. MaxConvs -> Seq(1 .. sentMsgs')]
    BY <1>1, <1>3, <1>5
  <2>2. rows' \in Seq(RowsUpto(sentMsgs'))
    BY <1>1, <1>5
  <2>3. sentMsgs' \in 0 .. MaxSent /\ sending' \in 0 .. sentMsgs' /\ sending' # 0
    BY <1>1, <1>3 DEF TranscriptTypes
  <2> QED
    BY <1>1, <2>1, <2>2, <2>3 DEF TranscriptTypes
<1>7. ConvsHeld'
  BY <1>1, <1>3 DEF ConvsHeld, TranscriptTypes
<1>8. StraightHeld'
  <2>1. SUFFICES ASSUME straight'
                 PROVE  StraightHeld'
    BY DEF StraightHeld
  <2>2. straight /\ stage' = "record"
    BY <1>2, <2>1
  <2>3. Agrees(rows)
    BY <1>1, <2>2 DEF StraightHeld
  <2>4. StoredConv' = Append(StoredConv, sentMsgs + 1)
    BY <1>1, <1>3 DEF StoredConv, TranscriptTypes
  <2> QED
    BY <1>1, <1>3, <2>2, <2>3, <2>4 DEF StraightHeld, Starting, LastSent, Agrees
<1>9. straight' \in BOOLEAN
  BY <1>2, Zenon
<1> QED
  BY <1>6, <1>7, <1>8, <1>9, Zenon

(* The row of a steered message, or none. *)
LEMMA RecordKeeps ==
  ASSUME TranscriptIInv, Transcript!RecordSteer
  PROVE  TranscriptIInv'
<1> USE TranscriptAssumption DEF TranscriptIInv
<1> DEFINE e == Transcript!Row("user", sentMsgs)
<1>1. /\ stage = "record" /\ stage' = "run"
      /\ UNCHANGED <<convs, made, stored, sessions, using, sending, sentMsgs, turns>>
  BY DEF Transcript!RecordSteer
<1>2. (rows' = Append(rows, e) /\ straight' = straight) \/ (rows' = rows /\ straight' = FALSE)
  BY Zenon DEF Transcript!RecordSteer, Transcript!SteerRow, Transcript!SteerNoRow
<1>3. sentMsgs \in Nat /\ rows \in Seq(RowsUpto(sentMsgs)) /\ sentMsgs >= 1
  BY <1>1 DEF TranscriptTypes
<1>4. e \in RowsUpto(sentMsgs) /\ sentMsgs \in 1 .. sentMsgs
  BY <1>3, RowsGrow
<1>5. rows' \in Seq(RowsUpto(sentMsgs))
  BY <1>2, <1>3, <1>4, AppendProperties
<1>6. TranscriptTypes'
  BY <1>1, <1>5 DEF TranscriptTypes, Starting
<1>7. ConvsHeld'
  BY <1>1 DEF ConvsHeld
<1>8. ASSUME straight, rows' = Append(rows, e)
      PROVE  Agrees(rows)'
  <2>1. LastSent /\ Len(Transcript!MsgsOf(rows)) <= Len(Transcript!UserRows(rows))
    BY <1>1, <1>8 DEF StraightHeld
  <2>2. /\ Transcript!MsgsOf(rows) \in Seq(1 .. sentMsgs)
        /\ Transcript!MsgsOf(rows') = Append(Transcript!MsgsOf(rows), sentMsgs)
        /\ Transcript!UserRows(rows) \in Seq(RowsUpto(sentMsgs))
        /\ Transcript!UserRows(rows') = Append(Transcript!UserRows(rows), e)
    BY <1>3, <1>4, <1>8, MsgsNext DEF Transcript!Row
  <2>3. /\ Len(Transcript!MsgsOf(rows')) = Len(Transcript!MsgsOf(rows)) + 1
        /\ Len(Transcript!UserRows(rows')) = Len(Transcript!UserRows(rows)) + 1
        /\ Len(Transcript!MsgsOf(rows)) \in Nat /\ Len(Transcript!UserRows(rows)) \in Nat
    BY <1>4, <2>2, AppendProperties
  <2>4. StoredConv' = Transcript!MsgsOf(rows')
    BY <1>1, <2>1, <2>2 DEF StoredConv, LastSent
  <2> QED
    BY <2>1, <2>3, <2>4 DEF Agrees
<1>9. StraightHeld'
  BY <1>1, <1>2, <1>8 DEF StraightHeld, Starting
<1>10. straight' \in BOOLEAN
  BY <1>2, Zenon
<1> QED
  BY <1>6, <1>7, <1>9, <1>10, Zenon

(* A row that is no message: a picture a tool injects, an answer. *)
LEMMA RowKeeps ==
  ASSUME TranscriptIInv,
         (stage = "run" /\ stage' \in {"run", "idle"}) \/ (stage = "record" /\ stage' = "record"),
         NEW e \in {Transcript!Row("screenshot", 0), Transcript!Row("assistant", 0)},
         rows' = rows \/ rows' = Append(rows, e), straight' = straight,
         UNCHANGED <<convs, made, stored, sessions, using, sending, sentMsgs, turns>>
  PROVE  TranscriptIInv'
<1> USE TranscriptAssumption DEF TranscriptIInv
<1>1. sentMsgs \in Nat /\ rows \in Seq(RowsUpto(sentMsgs))
  BY DEF TranscriptTypes
<1>2. e \in RowsUpto(sentMsgs) /\ e.role \in {"screenshot", "assistant"}
  <2>1. e \in RowsUpto(sentMsgs)
    BY <1>1, RowsGrow
  <2>2. e.role \in {"screenshot", "assistant"}
    BY DEF Transcript!Row
  <2> QED
    BY <2>1, <2>2
<1>3. rows' \in Seq(RowsUpto(sentMsgs))
  BY <1>1, <1>2, AppendProperties
<1>4. TranscriptTypes'
  BY <1>3 DEF TranscriptTypes, Starting
<1>5. ConvsHeld'
  BY DEF ConvsHeld
<1>6. /\ Transcript!MsgsOf(rows') = Transcript!MsgsOf(rows)
      /\ Len(Transcript!UserRows(rows)) <= Len(Transcript!UserRows(rows'))
      /\ Len(Transcript!UserRows(rows)) \in Nat /\ Len(Transcript!UserRows(rows')) \in Nat
      /\ Len(Transcript!MsgsOf(rows)) \in Nat
  <2>1. /\ Transcript!MsgsOf(rows) \in Seq(1 .. sentMsgs)
        /\ Transcript!MsgsOf(Append(rows, e)) = Transcript!MsgsOf(rows)
        /\ Transcript!UserRows(rows) \in Seq(RowsUpto(sentMsgs))
        /\ \/ Transcript!UserRows(Append(rows, e)) = Transcript!UserRows(rows)
           \/ Transcript!UserRows(Append(rows, e)) = Append(Transcript!UserRows(rows), e)
    BY <1>1, <1>2, MsgsNext
  <2>2. /\ Len(Transcript!MsgsOf(rows)) \in Nat /\ Len(Transcript!UserRows(rows)) \in Nat
        /\ Len(Append(Transcript!UserRows(rows), e)) = Len(Transcript!UserRows(rows)) + 1
    BY <1>2, <2>1, AppendProperties
  <2>3. CASE rows' = rows
    BY <2>2, <2>3
  <2>4. CASE rows' = Append(rows, e)
    BY <2>1, <2>2, <2>4
  <2> QED
    BY <2>3, <2>4
<1>7. StraightHeld'
  <2>1. CASE stage = "run"
    <3>1. straight' => straight /\ Agrees(rows)
      BY <2>1 DEF StraightHeld, Starting
    <3>2. Agrees(rows) => Agrees(rows)'
      BY <1>6 DEF Agrees, StoredConv
    <3> QED
      BY <2>1, <3>1, <3>2 DEF StraightHeld, Starting
  <2>2. CASE stage = "record"
    <3>1. straight' => LastSent /\ Len(Transcript!MsgsOf(rows)) <= Len(Transcript!UserRows(rows))
      BY <2>2 DEF StraightHeld, Starting
    <3>2. LastSent => LastSent'
      BY <1>6 DEF LastSent, StoredConv
    <3> QED
      BY <1>6, <2>2, <3>1, <3>2 DEF StraightHeld, Starting
  <2> QED
    BY <2>1, <2>2
<1> QED
  BY <1>4, <1>5, <1>7, Zenon

LEMMA RunKeeps ==
  ASSUME TranscriptIInv, Transcript!Screenshot \/ Transcript!Answer
  PROVE  TranscriptIInv'
<1>1. CASE Transcript!Screenshot
  <2>1. /\ \/ stage = "run" /\ stage' \in {"run", "idle"}
           \/ stage = "record" /\ stage' = "record"
        /\ rows' = Append(rows, Transcript!Row("screenshot", 0))
        /\ UNCHANGED <<convs, made, stored, sessions, using, sending, sentMsgs, turns>>
    BY <1>1 DEF Transcript!Screenshot
  <2>2. straight' = straight
    BY <1>1, Zenon DEF Transcript!Screenshot
  <2> QED
    BY <2>1, <2>2, RowKeeps
<1>2. CASE Transcript!Answer
  <2>1. /\ stage = "run" /\ stage' \in {"run", "idle"}
        /\ rows' = rows \/ rows' = Append(rows, Transcript!Row("assistant", 0))
        /\ UNCHANGED <<convs, made, stored, sessions, using, sending, sentMsgs, turns>>
    BY <1>2 DEF Transcript!Answer
  <2>2. straight' = straight
    BY <1>2, Zenon DEF Transcript!Answer
  <2> QED
    BY <2>1, <2>2, RowKeeps
<1> QED
  BY <1>1, <1>2

(* A call that fails, and the restart of the sidecar. *)
LEMMA FaultKeeps ==
  ASSUME TranscriptIInv, Transcript!CallFails \/ Transcript!Restart
  PROVE  TranscriptIInv'
<1> USE TranscriptAssumption DEF TranscriptIInv
<1>1. CASE Transcript!CallFails
  <2>1. /\ stage \in Starting /\ stage' = "idle"
        /\ UNCHANGED <<rows, convs, made, stored, sessions, using, sending, sentMsgs, turns>>
    BY <1>1 DEF Transcript!CallFails, Starting
  <2>2. straight' = FALSE
    BY <1>1, Zenon DEF Transcript!CallFails
  <2>3. TranscriptTypes' /\ ConvsHeld'
    BY <2>1 DEF TranscriptTypes, ConvsHeld, Starting
  <2>4. StraightHeld'
    BY <2>2 DEF StraightHeld
  <2> QED
    BY <2>2, <2>3, <2>4, Zenon
<1>2. CASE Transcript!Restart
  <2>1. /\ sessions' = 0
        /\ UNCHANGED <<rows, convs, made, stored, stage, using, sending, sentMsgs, turns>>
    BY <1>2 DEF Transcript!Restart
  <2>2. straight' = straight
    BY <1>2, Zenon DEF Transcript!Restart
  <2>3. TranscriptTypes' /\ ConvsHeld'
    BY <2>1 DEF TranscriptTypes, ConvsHeld, Starting
  <2>4. StraightHeld'
    BY <2>1, <2>2 DEF StraightHeld, Agrees, StoredConv, LastSent, Starting
  <2> QED
    BY <2>2, <2>3, <2>4, Zenon
<1> QED
  BY <1>1, <1>2

LEMMA TranscriptStep ==
  ASSUME TranscriptIInv, Transcript!Next \/ UNCHANGED transcriptVars
  PROVE  TranscriptIInv'
<1>1. CASE UNCHANGED transcriptVars
  <2>1. UNCHANGED <<rows, convs, made, stored, sessions, stage, using, sending, sentMsgs, turns>>
    BY <1>1 DEF transcriptVars
  <2>2. straight' = straight
    BY <1>1, Zenon DEF transcriptVars
  <2>3. TranscriptTypes' /\ ConvsHeld'
    BY <2>1 DEF TranscriptIInv, TranscriptTypes, ConvsHeld, Starting
  <2>4. StraightHeld'
    BY <2>1, <2>2 DEF TranscriptIInv, StraightHeld, Agrees, StoredConv, LastSent, Starting
  <2> QED
    BY <2>2, <2>3, <2>4, Zenon DEF TranscriptIInv
<1>2. CASE Transcript!Next
  BY <1>2, BeginKeeps, EnsureKeeps, RewindKeeps, SubmitTurnKeeps, SteerTurnKeeps, RecordKeeps, RunKeeps,
    FaultKeeps
  DEF Transcript!Next
<1> QED
  BY <1>1, <1>2

LEMMA TranscriptAsHeld == TranscriptIInv => ConversationKept
<1> SUFFICES ASSUME TranscriptIInv
             PROVE  ConversationKept
  OBVIOUS
<1> USE TranscriptAssumption DEF TranscriptIInv
<1>1. Transcript!TypeOK
  <2>1. rows \in Seq(RowsUpto(sentMsgs)) /\ sentMsgs \in Nat
    BY DEF TranscriptTypes
  <2>2. Transcript!KeepUserTurns \in Nat
    BY <2>1, KeepUser
  <2>3. RowsUpto(sentMsgs) \subseteq [role : Transcript!Roles, msg : 0 .. sentMsgs]
    BY <2>1 DEF RowsUpto, Transcript!Roles
  <2>4. rows \in Seq([role : Transcript!Roles, msg : 0 .. sentMsgs])
    BY <2>1, <2>3, SeqMonotonic
  <2>5. /\ made \in 0 .. MaxConvs /\ sentMsgs \in 0 .. MaxSent /\ turns \in 0 .. MaxTurns
        /\ convs \in [1 .. MaxConvs -> Seq(1 .. sentMsgs)]
        /\ {stored, sessions, using} \subseteq 0 .. made
        /\ stage \in {"idle", "ensure", "rewind", "submit", "run", "record"}
        /\ sending \in 0 .. sentMsgs
    BY DEF TranscriptTypes, Starting
  <2> QED
    BY <2>2, <2>4, <2>5, Zenon DEF Transcript!TypeOK
<1>2. Transcript!HistoryKept
  BY DEF Transcript!HistoryKept, StraightHeld, Starting, Agrees, StoredConv
<1>3. Transcript!RunsOnStored
  BY DEF Transcript!RunsOnStored, ConvsHeld
<1> QED
  BY <1>1, <1>2, <1>3 DEF ConversationKept

(* The conversation of a session is that of its rows: while every turn is plain and every
   steered message has been answered for and has its row, the conversation the store names has exactly the messages of the rows whenever no turn
   runs, so that no rewind is forced; and what is submitted runs on the conversation the
   store names, also after the sidecar restarted between the calls (runHarnessTurn,
   harnessKeepUserTurns, ensure and rewindIfNeeded). *)
THEOREM ConversationIsKept == PartsSpec => []ConversationKept
<1>1. PartsInit => TranscriptIInv
  BY TranscriptInit DEF PartsInit
<1>2. TranscriptIInv /\ [PartsNext]_vars => TranscriptIInv'
  <2> SUFFICES ASSUME TranscriptIInv, [PartsNext]_vars
               PROVE  TranscriptIInv'
    OBVIOUS
  <2>1. CASE InTranscript(Transcript!Next)
    BY <2>1, TranscriptStep DEF InTranscript
  <2>2. CASE UNCHANGED transcriptVars
    BY <2>2, TranscriptStep
  <2> QED
    BY <2>1, <2>2 DEF PartsNext, InConnection, InTurn, vars
<1>3. TranscriptIInv => ConversationKept
  BY TranscriptAsHeld
<1> QED
  BY <1>1, <1>2, <1>3, PTL DEF PartsSpec
=============================================================================
