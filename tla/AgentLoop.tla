------------------------------ MODULE AgentLoop ------------------------------
(***************************************************************************)
(* One turn of the built-in loop: RunChat of internal/agent/agent.go, from *)
(* the rows it rebuilds the model's view from, over replies that answer,   *)
(* call tools, are cut off or drop, to its return.  A background command   *)
(* may end at any moment and write its row.                                *)
(*                                                                         *)
(* A piece of text is named by the model call it came from; piece 0 is     *)
(* text of an earlier turn.  A call is named by its model call and place.  *)
(***************************************************************************)
EXTENDS Compaction

CONSTANTS
  MaxCalls,    (* bound: model calls                                       *)
  MaxResumes,  (* maxAutoResumes and maxTruncationResumes                  *)
  MaxJoined    (* bound: steered messages, background results              *)

VARIABLES
  rows,         (* the session's rows                                      *)
  history,      (* the model's view                                        *)
  at,           (* where RunChat is                                        *)
  calls,        (* the calls of this round that are still to run           *)
  modelCalls,   (* calls to the model                                      *)
  partial,      (* partialText                                             *)
  kept,         (* partialText or partialReasoning is not empty            *)
  partialStart, (* 0 when there is none                                    *)
  resumes, truncations, ponders,
  saved,       (* assistantSaved                                           *)
  strippable,  (* vision, and no row of the reply yet                      *)
  joined,      (* steered messages so far                                  *)
  landed,      (* background rows written, and those polled                *)
  streamed,    (* the pieces the user saw                                  *)
  abandoned,   (* pieces of a reply asked for again without the pictures   *)
  scarred,     (* model calls cut off, interrupted or sliced away          *)
  how          (* why RunChat returned                                     *)

viewVars == <<rows, history, scarred>>
partialVars == <<partial, kept, partialStart>>
countVars == <<resumes, truncations, ponders>>
joinVars == <<joined, landed>>
loopVars ==
  <<viewVars, partialVars, countVars, joinVars, at, calls, modelCalls, saved, strippable,
    streamed, abandoned, how>>

(* Requests, pictures and instructions are users' messages with no text. *)
Asked == User(<<>>)
Continue == User(<<>>)

(* An error of the model, of the store, or the deadline: failed. *)
Ended == {"answer", "kept", "failed"}

TypeOK ==
  /\ at \in {"top", "call", "tools", "after", "returned"}
  /\ \A m \in Range(rows) :
       /\ m.role \in {"user", "assistant", "tool"}
       /\ Range(m.text) \subseteq 0 .. modelCalls
       /\ Calls(m) \subseteq (0 .. modelCalls) \X (1 .. 4)
  /\ modelCalls \in 0 .. MaxCalls /\ abandoned \subseteq 1 .. modelCalls
  /\ partial \in Seq(1 .. modelCalls)
  /\ partialStart \in 0 .. Len(history)
  /\ {resumes, ponders} \subseteq 0 .. MaxResumes /\ truncations \in 0 .. MaxResumes + 1
  /\ {kept, saved, strippable} \subseteq BOOLEAN
  /\ joined \in 0 .. MaxJoined /\ landed \in [written : 0 .. MaxJoined, polled : 0 .. MaxJoined]
  /\ landed.polled <= landed.written
  /\ scarred \subseteq 0 .. modelCalls
  /\ how \in Ended \cup {"running"} /\ (how = "running" <=> at # "returned")
  /\ history # <<>> /\ history[1] = System

(* An earlier turn's round of two calls, and one that was stopped between them. *)
Before ==
  <<Asked, Assistant(<<0>>, <<<<0, 1>>, <<0, 2>>>>), Result(<<0, 1>>), Result(<<0, 2>>),
    Asked, Assistant(<<0>>, <<<<0, 3>>, <<0, 4>>>>), Result(<<0, 3>>)>>

(* RunChat up to the loop: a new message, a retry that ends on it, or the
   continuation of a partial reply; the view is rebuilt from the rows. *)
Init ==
  /\ \/ /\ rows = Append(Before, Asked)
        /\ history = <<System>> \o rows
     \/ /\ rows = Before \o <<Asked, Assistant(<<0>>, <<>>)>>
        /\ history = <<System>> \o rows \o <<Continue>>
  /\ at = "top" /\ calls = <<>> /\ modelCalls = 0
  /\ partial = <<>> /\ kept = FALSE /\ partialStart = 0
  /\ resumes = 0 /\ truncations = 0 /\ ponders = 0
  /\ saved = FALSE /\ strippable \in BOOLEAN
  /\ joined = 0 /\ landed = [written |-> 0, polled |-> 0]
  /\ streamed = <<>> /\ abandoned = {} /\ scarred = {} /\ how = "running"
-----------------------------------------------------------------------------
Ends(reason) == at' = "returned" /\ how' = reason
Goes(place) == at' = place /\ UNCHANGED how

(* Model calls some message of which the view no longer has. *)
Sliced(now) ==
  {m.calls[1][1] : m \in {h \in Range(history) \ Range(now) : h.calls # <<>>}}

(* A message of the queue joins, or the write fails and the turn with it. *)
Steer ==
  /\ at = "top" /\ joined + landed.written < MaxJoined
  /\ \/ /\ joined' = joined + 1
        /\ rows' = Append(rows, Asked) /\ history' = Append(history, Asked)
        /\ Goes("top")
     \/ Ends("failed") /\ UNCHANGED <<joined, rows, history>>
  /\ UNCHANGED <<scarred, partialVars, countVars, landed, calls, modelCalls, saved, strippable,
                 streamed, abandoned>>

(* A background command ends: its row lands wherever the turn is. *)
BackgroundEnds ==
  /\ at # "returned" /\ joined + landed.written < MaxJoined
  /\ landed' = [landed EXCEPT !.written = @ + 1]
  /\ rows' = Append(rows, Asked)
  /\ scarred' = IF calls # <<>> THEN scarred \cup {calls[1][1]} ELSE scarred
  /\ UNCHANGED <<history, partialVars, countVars, joined, at, calls, modelCalls, saved,
                 strippable, streamed, abandoned, how>>

(* PollBackground, and the call of the model. *)
Request ==
  /\ at = "top" /\ modelCalls < MaxCalls
  /\ modelCalls' = modelCalls + 1
  /\ landed' = [landed EXCEPT !.polled = landed.written]
  /\ history' = history \o [i \in 1 .. landed.written - landed.polled |-> Asked]
  /\ Goes("call")
  /\ UNCHANGED <<rows, scarred, partialVars, countVars, joined, calls, saved, strippable,
                 streamed, abandoned>>

(* What a model call streams: the piece of text it writes, or none. *)
Written == {<<>>, <<modelCalls>>}

(* The first calls of a turn with pictures fail, as when the model takes none:
   whatever was streamed, they are taken out and the model is called once more. *)
StripImages ==
  /\ at = "call" /\ strippable /\ modelCalls < MaxCalls
  /\ strippable' = FALSE
  /\ modelCalls' = modelCalls + 1
  /\ \E text \in Written :
       streamed' = streamed \o text /\ abandoned' = abandoned \cup Range(text)
  /\ UNCHANGED <<viewVars, partialVars, countVars, joinVars, at, calls, saved, how>>

(* resumeFrom: what is kept of the reply so far goes to the end of the view, in
   place of what is behind partialStart. *)
ResumeFrom(text) ==
  LET start == IF partialStart = 0 THEN Len(history) ELSE partialStart
  IN /\ partialStart' = start
     /\ partial' = text /\ kept' = TRUE
     /\ history' = SubSeq(history, 1, start) \o <<Assistant(text, <<>>), Continue>>
     /\ scarred' = scarred \cup Sliced(history')

KeepText(text, thinking) ==
  rows' = IF text # <<>> \/ thinking THEN Append(rows, Assistant(text, <<>>)) ELSE rows

(* The stream drops.  With something to continue from the round is run again,
   MaxResumes times; at the deadline, or without, the turn ends. *)
Drops ==
  /\ at = "call" /\ ~strippable
  /\ \E text \in Written, thinking \in BOOLEAN, deadline \in BOOLEAN :
       /\ streamed' = streamed \o text
       /\ IF ~deadline /\ resumes < MaxResumes /\ (text # <<>> \/ thinking)
            THEN /\ resumes' = resumes + 1
                 /\ ResumeFrom(partial \o text)
                 /\ Goes("top")
                 /\ UNCHANGED rows
            ELSE /\ KeepText(text, thinking)
                 /\ Ends("failed")
                 /\ UNCHANGED <<history, scarred, partialVars, resumes>>
  /\ UNCHANGED <<truncations, ponders, joinVars, calls, modelCalls, saved,
                 strippable, abandoned>>

(* The reply is cut off and has no whole call. *)
CutOff ==
  /\ at = "call"
  /\ truncations' = truncations + 1
  /\ \E text \in Written, thinking \in BOOLEAN, dropped \in BOOLEAN :
       /\ streamed' = streamed \o text
       /\ IF text # <<>> \/ thinking
            THEN IF truncations' > MaxResumes
                   THEN /\ Goes("after")
                        /\ partial' = partial \o text /\ kept' = TRUE
                        /\ UNCHANGED <<partialStart, history, scarred>>
                   ELSE Goes("top") /\ ResumeFrom(partial \o text)
            ELSE /\ Goes(IF truncations' > MaxResumes THEN "after" ELSE "top")
                 /\ history' = IF dropped /\ truncations' <= MaxResumes
                                 THEN Append(history, Asked) ELSE history
                 /\ UNCHANGED <<partialVars, scarred>>
  /\ UNCHANGED <<rows, resumes, ponders, joinVars, calls, modelCalls, saved,
                 strippable, abandoned>>

(* A reply with nothing in it. *)
Empty ==
  /\ at = "call"
  /\ Ends("failed")
  /\ UNCHANGED <<viewVars, partialVars, countVars, joinVars, calls, modelCalls, saved, strippable,
                 streamed, abandoned>>

(* A bug to catch: the row has the last part of the reply only. *)
LastPart(text) == text
Folded(text) == partial \o text

(* A reply that counts: one row for it and what was kept before it.  The row
   names the calls that were cut off too; the view and the tools do not. *)
Reply(text, made, cut) ==
  /\ streamed' = streamed \o text
  /\ \/ /\ rows' = Append(rows, Assistant(Folded(text), made \o cut))
        /\ scarred' = IF cut = <<>> THEN scarred ELSE scarred \cup {modelCalls}
        /\ saved' = TRUE /\ strippable' = FALSE
        /\ IF partial = <<>> THEN UNCHANGED partialVars
           ELSE partial' = <<>> /\ kept' = FALSE /\ partialStart' = 0
        /\ calls' = made
        /\ IF made # <<>>
             THEN /\ history' = Append(history, Assistant(text, made))
                  /\ Goes("tools") /\ UNCHANGED ponders
           ELSE IF text = <<>> /\ ponders < MaxResumes
             THEN /\ history' = history \o <<Assistant(text, made), Continue>>
                  /\ ponders' = ponders + 1 /\ Goes("top")
             ELSE /\ history' = Append(history, Assistant(text, made))
                  /\ Ends("answer") /\ UNCHANGED ponders
     \/ /\ Ends("failed")
        /\ UNCHANGED <<rows, scarred, saved, strippable, partialVars, calls, history, ponders>>
  /\ UNCHANGED <<resumes, truncations, joinVars, modelCalls, abandoned>>

Call(n) == <<modelCalls, n>>

Replies ==
  /\ at = "call"
  /\ \E text \in Written :
       \/ Reply(text, <<>>, <<>>)
       \/ Reply(text, <<Call(1)>>, <<>>)
       \/ Reply(text, <<Call(1), Call(2)>>, <<>>)
       \/ Reply(text, <<Call(1)>>, <<Call(2)>>)

ResultInView(call) == history' = Append(history, Result(call))

(* The next tool runs; its result is a row and in the view, and so is the picture
   it may leave. *)
RunTool ==
  /\ at = "tools" /\ calls # <<>>
  /\ \/ /\ rows' = Append(rows, Result(calls[1]))
        /\ ResultInView(calls[1])
        /\ calls' = Tail(calls)
        /\ Goes(IF calls' = <<>> THEN "top" ELSE "tools")
        /\ UNCHANGED scarred
     \/ /\ rows' = rows \o <<Result(calls[1]), Asked>>
        /\ history' = history \o <<Result(calls[1]), Asked>>
        /\ calls' = Tail(calls)
        /\ Goes(IF calls' = <<>> THEN "top" ELSE "tools")
        /\ scarred' = IF calls' = <<>> THEN scarred ELSE scarred \cup {calls[1][1]}
     \/ /\ Ends("failed")
        /\ rows' \in {rows, Append(rows, Result(calls[1]))}
        /\ scarred' = scarred \cup {calls[1][1]}
        /\ calls' = <<>>
        /\ UNCHANGED history
  /\ UNCHANGED <<partialVars, countVars, joinVars, modelCalls, saved, strippable,
                 streamed, abandoned>>

(* After the loop: the kept text is the reply, if no round has a row yet. *)
KeepPartial ==
  /\ at = "after"
  /\ rows' = IF ~saved /\ kept
               THEN Append(rows, Assistant(partial, <<>>)) ELSE rows
  /\ Ends("kept")
  /\ UNCHANGED <<history, scarred, partialVars, countVars, joinVars, calls, modelCalls, saved,
                 strippable, streamed, abandoned>>

Next ==
  \/ Steer \/ BackgroundEnds \/ Request \/ StripImages
  \/ Drops \/ CutOff \/ Empty \/ Replies \/ RunTool \/ KeepPartial

Spec == Init /\ [][Next]_loopVars
-----------------------------------------------------------------------------
(* What the rows of this turn say: a text of earlier turns is of piece 0. *)
Mine(s) ==
  FlattenSeq([i \in DOMAIN s |->
    IF s[i].role = "assistant" /\ 0 \notin Range(s[i].text) THEN s[i].text ELSE <<>>])

Without(pieces, out) ==
  FlattenSeq([i \in DOMAIN pieces |-> IF pieces[i] \in out THEN <<>> ELSE <<pieces[i]>>])

(* RunChat: when a turn ends with an answer the rows hold every piece the user
   saw, once and in order, over drops, cut-offs and rounds of tools, but for a
   reply asked for again without its pictures; and so does a turn that gives up
   before any round was written. *)
AnswerIsStored ==
  (how = "answer" \/ (how = "kept" /\ ~saved)) =>
    Mine(rows) = Without(streamed, abandoned)

Rounds(s) == {<<m.role, m.calls>> : m \in {h \in Range(s) : h.calls # <<>>}}
Healthy(s) == {r \in Rounds(s) : r[2][1][1] \notin scarred \cup {0}}

(* protocolSafeHistory: a call and its result are in the next request, and in the
   view that the next turn rebuilds from the rows, unless that very round was cut
   off, was interrupted by another message, or was sliced away. *)
RoundsIntact ==
  /\ at = "returned" => Healthy(rows) \subseteq Rounds(SafeHistory(rows))
  /\ at = "top" => Healthy(rows) \subseteq Rounds(SafeHistory(history))

(* compactHistory: at every threshold the request keeps the system's message, the
   first request and the newest message, and, unless the view ends with results,
   no call in it lacks a result and no result its call. *)
CompactionKeepsPairs ==
  at = "call" =>
    LET safe == SafeHistory(history) IN
    \A limit \in 2 .. Len(safe) - 1 :
      LET sent == Compacted(safe, limit)
      IN /\ SubSeq(sent, 1, Lead(safe)) = SubSeq(safe, 1, Lead(safe))
         /\ Last(sent) = Last(safe)
         /\ Last(safe).role # "tool" => SafeHistory(sent) = sent

(* "never split an assistant tool call from its following tool results"
   (compaction.go). *)
CompactionNeverSplits ==
  at = "call" =>
    LET safe == SafeHistory(history) IN
    \A limit \in 2 .. Len(safe) - 1 : SafeHistory(Compacted(safe, limit)) = Compacted(safe, limit)

(* "a later truncation must not slice past this round's messages" (agent.go):
   what the turn wrote stays in the model's view. *)
NothingSliced ==
  at \in {"top", "call"} =>
    \A r \in Rounds(rows) : r[1] = "tool" /\ r[2][1][1] # 0 => r \in Rounds(history)
=============================================================================
