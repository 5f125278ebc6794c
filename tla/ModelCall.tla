------------------------------ MODULE ModelCall ------------------------------
(***************************************************************************)
(* One call of a model (ChatStream of internal/llm/llm.go): requests with  *)
(* retries and fallbacks until one is answered, then a stream read through *)
(* stallReader (stall.go), whose producer goroutine reads the body while   *)
(* Read waits for it no longer than the stall time-out.                    *)
(***************************************************************************)
EXTENDS Naturals, Sequences, SequencesExt

CONSTANTS
  chatRetries, (* requests that may fail before the call does                *)
  MaxPieces    (* bound: pieces of a response                                *)

VARIABLES
  at,          (* where ChatStream is                                        *)
  attempt, posts, refused, (* attempts, requests made, fallbacks taken       *)
  sent, ended, (* what the provider streamed, and how it ended the body      *)
  producer, held, taken, (* the goroutine, its chunk, pieces it has read     *)
  stopped, bodyClosed, (* sr.stop, and the response body                     *)
  shown, calls, gatewayError, (* onDelta, res.ToolCalls, res.GatewayError    *)
  result,      (* what the call returned                                     *)
  left         (* for the properties: it returned without closing sr         *)

postVars == <<attempt, posts, refused>>
wireVars == <<sent, ended>>
readVars == <<producer, held, taken, stopped, bodyClosed>>
resVars == <<shown, calls, gatewayError>>
callVars == <<at, postVars, wireVars, readVars, resVars, result, left>>

Pieces == {"text", "call", "error", "done"}
Options == {"stream_options", "max_tokens"}
NoChunk == "none"

TypeOK ==
  /\ at \in {"post", "backoff", "scan", "returned"}
  /\ attempt \in 1 .. chatRetries + 1 /\ refused \subseteq Options
  /\ sent \in Seq(Pieces) /\ ended \in {"no", "eof", "drop"}
  /\ producer \in {"none", "read", "send", "gone"} /\ held \in Pieces \cup {NoChunk, "eof", "drop"}
  /\ taken \in 0 .. MaxPieces /\ stopped \in BOOLEAN /\ bodyClosed \in BOOLEAN
  /\ result \in {"none", "ok", "partial", "failed", "empty"}

Init ==
  /\ at = "post" /\ attempt = 1 /\ posts = 0 /\ refused = {}
  /\ sent = <<>> /\ ended = "no"
  /\ producer = "none" /\ held = NoChunk /\ taken = 0 /\ stopped = FALSE /\ bodyClosed = FALSE
  /\ shown = <<>> /\ calls = <<>> /\ gatewayError = FALSE
  /\ result = "none" /\ left = FALSE

Return(r) == at' = "returned" /\ result' = r
-----------------------------------------------------------------------------
(* A 200: the producer starts on the body. *)
Accepted ==
  /\ at = "post" /\ at' = "scan" /\ posts' = posts + 1 /\ producer' = "read"
  /\ UNCHANGED <<attempt, refused, wireVars, held, taken, stopped, bodyClosed, resVars, result, left>>

(* A 400 is answered by asking again without an option, first stream_options and
   then max_tokens; those attempts are not counted. *)
NextOption == IF "stream_options" \in refused THEN "max_tokens" ELSE "stream_options"

FallsBack ==
  /\ at = "post" /\ refused # Options
  /\ posts' = posts + 1 /\ refused' = refused \cup {NextOption}
  /\ UNCHANGED <<at, attempt, wireVars, readVars, resVars, result, left>>

(* No answer, a 408, a 429 or a 5xx. *)
Retries ==
  /\ at = "post" /\ at' = "backoff" /\ posts' = posts + 1
  /\ UNCHANGED <<attempt, refused, wireVars, readVars, resVars, result, left>>

Refused ==
  /\ at = "post" /\ posts' = posts + 1 /\ Return("failed")
  /\ UNCHANGED <<attempt, refused, wireVars, readVars, resVars, left>>

Asked == Accepted \/ FallsBack \/ Retries \/ Refused

WaitBackoff ==
  /\ at = "backoff" /\ attempt' = attempt + 1
  /\ IF attempt + 1 > chatRetries THEN Return("failed") ELSE at' = "post" /\ UNCHANGED result
  /\ UNCHANGED <<posts, refused, wireVars, readVars, resVars, left>>

Cancelled ==
  /\ at = "backoff" /\ Return("failed")
  /\ UNCHANGED <<postVars, wireVars, readVars, resVars, left>>
-----------------------------------------------------------------------------
(* The provider: pieces, or silence, then the end of the body or a broken one (a
   cancelled context breaks it too). *)
Streams(piece) ==
  /\ at = "scan" /\ ended = "no" /\ Len(sent) < MaxPieces
  /\ sent' = Append(sent, piece)
  /\ UNCHANGED <<at, postVars, ended, readVars, resVars, result, left>>

Ends(how) ==
  /\ at = "scan" /\ ended = "no" /\ ended' = how
  /\ UNCHANGED <<at, postVars, sent, readVars, resVars, result, left>>

(* The producer: body.Read returns a piece or an error, which a closed body is. *)
BodyRead ==
  /\ producer = "read"
  /\ \/ /\ ~ bodyClosed /\ taken < Len(sent)
        /\ held' = sent[taken + 1] /\ taken' = taken + 1
     \/ /\ ~ bodyClosed /\ taken = Len(sent) /\ ended # "no" /\ held' = ended /\ UNCHANGED taken
     \/ bodyClosed /\ held' = "drop" /\ UNCHANGED taken
  /\ producer' = "send"
  /\ UNCHANGED <<at, postVars, wireVars, stopped, bodyClosed, resVars, result, left>>

(* Its send sees that stop is closed. *)
ProducerStops ==
  /\ producer = "send" /\ stopped /\ producer' = "gone"
  /\ UNCHANGED <<at, postVars, wireVars, held, taken, stopped, bodyClosed, resVars, result, left>>

(* Pieces of one kind are alike, so those among others are known by their number. *)
Only(kind, pieces) ==
  [i \in 1 .. Cardinality({k \in DOMAIN pieces : pieces[k] = kind}) |-> kind]

TextsIn(pieces) == Only("text", pieces)
CallsIn(pieces) == Only("call", pieces)
Hands == at = "scan" /\ producer = "send"

(* Read returns a chunk and scanStream handles its lines. *)
Handle ==
  /\ Hands /\ held \in Pieces \ {"done"}
  /\ producer' = "read"
  /\ shown' = IF held = "text" THEN Append(shown, held) ELSE shown
  /\ gatewayError' = (gatewayError \/ held = "error")
  /\ UNCHANGED <<at, postVars, wireVars, held, taken, stopped, bodyClosed, calls, result, left>>

(* The tool calls are folded once the stream is over, and nothing but a gateway's
   error is an empty response. *)
Folded == IF held \in {"done", "eof"} THEN CallsIn(SubSeq(sent, 1, taken)) ELSE <<>>

Verdict(folded) == IF shown = <<>> /\ folded = <<>> /\ gatewayError THEN "empty" ELSE "ok"

ScanEnds ==
  /\ Hands /\ held \in {"done", "eof"}
  /\ producer' = IF held = "done" THEN "read" ELSE "gone"
  /\ stopped' = TRUE /\ bodyClosed' = TRUE /\ calls' = Folded /\ Return(Verdict(Folded))
  /\ UNCHANGED <<postVars, wireVars, held, taken, shown, gatewayError, left>>

(* A bug to catch: a stream that broke is asked for again. *)
AsksAgain == at' = "backoff" /\ UNCHANGED result

(* What streamed so far is returned with the error. *)
KeepsPartial == Return("partial")

ScanFails ==
  /\ Hands /\ held = "drop"
  /\ producer' = "gone" /\ stopped' = TRUE /\ bodyClosed' = TRUE /\ KeepsPartial
  /\ UNCHANGED <<postVars, wireVars, held, taken, resVars, left>>

(* No chunk within streamStallTimeout. *)
Stalls ==
  /\ at = "scan" /\ producer = "read"
  /\ stopped' = TRUE /\ bodyClosed' = TRUE /\ KeepsPartial
  /\ UNCHANGED <<postVars, wireVars, producer, held, taken, resVars, left>>

(* A line over the scanner's 4 MB: scanStream fails, and sr is not closed. *)
LineTooLong ==
  /\ Hands /\ held \in Pieces /\ KeepsPartial
  /\ producer' = "read" /\ bodyClosed' = TRUE /\ left' = TRUE
  /\ UNCHANGED <<postVars, wireVars, held, taken, stopped, resVars>>
-----------------------------------------------------------------------------
Next ==
  \/ Asked \/ WaitBackoff \/ Cancelled
  \/ \E p \in Pieces : Streams(p)
  \/ \E how \in {"eof", "drop"} : Ends(how)
  \/ BodyRead \/ ProducerStops \/ Handle \/ ScanEnds \/ ScanFails \/ Stalls \/ LineTooLong

(* A request is answered or times out, a timer fires, and a goroutine runs. *)
Fairness ==
  /\ WF_callVars(Asked) /\ WF_callVars(WaitBackoff)
  /\ WF_callVars(Stalls) /\ WF_callVars(BodyRead) /\ WF_callVars(ProducerStops)
  /\ WF_callVars(Handle) /\ WF_callVars(ScanEnds) /\ WF_callVars(ScanFails)

Spec == Init /\ [][Next]_callVars /\ Fairness
-----------------------------------------------------------------------------
(* ChatStream: after the first piece shown there is no further request, so what the
   user sees is a beginning of one response, and all of it when the call succeeds. *)
ShownOnce ==
  /\ at # "scan" /\ result = "none" => shown = <<>>
  /\ IsPrefix(shown, TextsIn(sent))
  /\ result = "ok" => shown = TextsIn(SubSeq(sent, 1, taken)) /\ calls = CallsIn(SubSeq(sent, 1, taken))

(* A broken stream hands out no tool call, an error of the gateway no empty reply. *)
NothingInvented ==
  /\ result # "ok" => calls = <<>>
  /\ result = "ok" /\ gatewayError => shown # <<>> \/ calls # <<>>

(* chatRetries, and one more for each option the provider refused. *)
RequestsBounded == posts <= chatRetries + Cardinality(refused)

(* "a body Read that eventually unblocks sees stop closed and exits instead of
   blocking on its send forever" (stall.go), but for a line that is too long. *)
ProducerEnds == at = "returned" /\ producer # "none" /\ ~ left ~> producer = "gone"
=============================================================================
