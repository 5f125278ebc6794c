------------------------------- MODULE RunHub -------------------------------
(***************************************************************************)
(* runHub of internal/server/turns.go with the goroutines around it: the   *)
(* emit function of streamChatTurn, called by the turn and by what runs    *)
(* beside it, publishes each event and writes it to the run's own client;  *)
(* watch handlers subscribe, forward and go away; the end of the run       *)
(* closes the hub.                                                         *)
(*                                                                         *)
(* Events are 1, 2, ... in the order publish takes them.  hub.mu makes     *)
(* subscribe, publish, release and close one step each, emitMu a write to  *)
(* the run's own client.                                                   *)
(***************************************************************************)
EXTENDS Naturals, Sequences

CONSTANTS
  Watchers,    (* calls of handleChatWatch                                 *)
  Jobs,        (* goroutines beside the turn that emit: the notify of a
                  background command                                       *)
  Turn,        (* the turn's own goroutine                                 *)
  HistSize,    (* histSize: capacity of the ring                           *)
  ChanSize,    (* capacity of a subscriber's channel                       *)
  MaxEvents    (* bound: events of a run                                   *)

Emitters == Jobs \cup {Turn}

ASSUME RunHubAssumption ==
  /\ Turn \notin Jobs
  /\ HistSize \in Nat \ {0}
  /\ ChanSize \in Nat /\ ChanSize >= HistSize
  /\ MaxEvents \in Nat

VARIABLES
  published,   (* events published so far                                  *)
  ring,        (* history                                                  *)
  head,        (* histHead, counted from 0                                 *)
  subs,        (* the subscribers whose channel is open                    *)
  closed,      (* closed                                                   *)
  chan,        (* what each subscriber's channel holds                     *)
  watch,       (* where each watch handler is                              *)
  sent,        (* the events it wrote to its client                        *)
  pending,     (* the event an emitter published and has yet to write, or 0 *)
  dead,        (* writeDead                                                *)
  returned     (* streamChatTurn has returned                              *)

hubVars == <<ring, head, subs, closed, chan>>
watchVars == <<watch, sent>>
emitVars == <<pending, dead>>
vars == <<published, hubVars, watchVars, emitVars, returned>>

TypeOK ==
  /\ published \in 0 .. MaxEvents
  /\ ring \in Seq(1 .. published) /\ Len(ring) <= HistSize
  /\ head \in 0 .. HistSize - 1
  /\ subs \subseteq {w \in Watchers : watch[w] = "watching"}
  /\ closed \in BOOLEAN /\ dead \in BOOLEAN /\ returned \in BOOLEAN
  /\ \A w \in Watchers :
       /\ chan[w] \in Seq(1 .. published) /\ Len(chan[w]) <= ChanSize
       /\ sent[w] \in Seq(1 .. published)
       /\ watch[w] \in {"off", "found", "watching", "over"}
  /\ pending \in [Emitters -> 0 .. published]

Init ==
  /\ published = 0
  /\ ring = <<>> /\ head = 0
  /\ subs = {} /\ closed = FALSE
  /\ chan = [w \in Watchers |-> <<>>]
  /\ watch = [w \in Watchers |-> "off"]
  /\ sent = [w \in Watchers |-> <<>>]
  /\ pending = [e \in Emitters |-> 0]
  /\ dead = FALSE /\ returned = FALSE
-----------------------------------------------------------------------------
(* i % histSize for an index below twice the size. *)
Wrap(i) == IF i < HistSize THEN i ELSE i - HistSize

(* The replay: the oldest event of the ring first. *)
Replay ==
  IF Len(ring) = HistSize
    THEN [i \in 1 .. HistSize |-> ring[Wrap(head + i - 1) + 1]]
    ELSE ring

(* publish puts the event into the ring ... *)
Record(ev) ==
  IF Len(ring) < HistSize
    THEN ring' = Append(ring, ev) /\ head' = head
    ELSE ring' = [ring EXCEPT ![head + 1] = ev] /\ head' = Wrap(head + 1)

(* A bug to catch: what publish did before, a full channel loses the event. *)
FanOutDrops(ev) ==
  /\ subs' = subs
  /\ chan' = [w \in Watchers |->
       IF w \in subs /\ Len(chan[w]) < ChanSize THEN Append(chan[w], ev) ELSE chan[w]]

(* ... and into every channel with room; a subscriber whose channel is full is
   cut off: what it holds can still be read, then it is closed. *)
FanOut(ev) ==
  LET full == {w \in subs : Len(chan[w]) = ChanSize} IN
  /\ subs' = subs \ full
  /\ chan' = [w \in Watchers |->
       IF w \in subs \ full THEN Append(chan[w], ev) ELSE chan[w]]

(* emit, first half.  The turn emits while it runs, a job whenever it ends. *)
Publish(e) ==
  LET ev == published + 1 IN
  /\ published < MaxEvents
  /\ pending[e] = 0
  /\ e = Turn => ~closed
  /\ published' = ev
  /\ Record(ev)
  /\ FanOut(ev)
  /\ pending' = [pending EXCEPT ![e] = ev]
  /\ UNCHANGED <<closed, watchVars, dead, returned>>

(* emit, second half: the event is written to the run's own client, or not
   even tried once a write has failed. *)
EmitWrite(e) ==
  /\ pending[e] # 0
  /\ pending' = [pending EXCEPT ![e] = 0]
  /\ dead' \in {dead, TRUE}
  /\ UNCHANGED <<published, hubVars, watchVars, returned>>

(* The heartbeat finds the client gone. *)
BeatFails ==
  /\ ~closed /\ ~dead
  /\ dead' = TRUE
  /\ UNCHANGED <<published, hubVars, watchVars, pending, returned>>

(* end: the hub is closed, and with it every channel. *)
Close ==
  /\ ~closed /\ pending[Turn] = 0
  /\ closed' = TRUE
  /\ subs' = {}
  /\ UNCHANGED <<published, ring, head, chan, watchVars, emitVars, returned>>

(* end is the last thing deferred: the handler of the run's client returns. *)
Return ==
  /\ closed /\ ~returned
  /\ returned' = TRUE
  /\ UNCHANGED <<published, hubVars, watchVars, emitVars>>
-----------------------------------------------------------------------------
(* handleChatWatch finds the hub of the active run ... *)
Find(w) ==
  /\ watch[w] = "off" /\ ~closed
  /\ watch' = [watch EXCEPT ![w] = "found"]
  /\ UNCHANGED <<published, hubVars, sent, emitVars, returned>>

(* A bug to catch: a closed hub takes subscribers. *)
SubscribeUnchecked(w) ==
  /\ watch[w] = "found"
  /\ watch' = [watch EXCEPT ![w] = "watching"]
  /\ subs' = subs \cup {w}
  /\ chan' = [chan EXCEPT ![w] = Replay]
  /\ UNCHANGED <<published, ring, head, closed, sent, emitVars, returned>>

(* ... and subscribes to it: the replay is in the channel before anything
   live, or the channel of a closed hub is closed at once.  The count that
   marks the end of the replay for the client is left out. *)
Subscribe(w) ==
  /\ watch[w] = "found"
  /\ watch' = [watch EXCEPT ![w] = "watching"]
  /\ subs' = IF closed THEN subs ELSE subs \cup {w}
  /\ chan' = IF closed THEN chan ELSE [chan EXCEPT ![w] = Replay]
  /\ UNCHANGED <<published, ring, head, closed, sent, emitVars, returned>>

(* An event is forwarded to the watching client. *)
Forward(w) ==
  /\ watch[w] = "watching" /\ chan[w] # <<>>
  /\ chan' = [chan EXCEPT ![w] = Tail(@)]
  /\ sent' = [sent EXCEPT ![w] = Append(@, Head(chan[w]))]
  /\ UNCHANGED <<published, ring, head, subs, closed, watch, emitVars, returned>>

(* The channel is closed and read to its end. *)
StreamEnd(w) ==
  /\ watch[w] = "watching" /\ w \notin subs /\ chan[w] = <<>>
  /\ watch' = [watch EXCEPT ![w] = "over"]
  /\ UNCHANGED <<published, hubVars, sent, emitVars, returned>>

(* A write to the watching client fails: the handler releases its channel and
   reads no more of it. *)
Leave(w) ==
  /\ watch[w] = "watching"
  /\ watch' = [watch EXCEPT ![w] = "over"]
  /\ subs' = subs \ {w}
  /\ UNCHANGED <<published, ring, head, closed, chan, sent, emitVars, returned>>

Next ==
  \/ \E e \in Emitters : Publish(e) \/ EmitWrite(e)
  \/ BeatFails \/ Close \/ Return
  \/ \E w \in Watchers :
       Find(w) \/ Subscribe(w) \/ Forward(w) \/ StreamEnd(w) \/ Leave(w)

(* A watch handler that can go on does; the run may go on for ever. *)
Fairness ==
  \A w \in Watchers :
    WF_vars(Subscribe(w)) /\ WF_vars(Forward(w)) /\ WF_vars(StreamEnd(w))

Spec == Init /\ [][Next]_vars
FairSpec == Spec /\ Fairness
-----------------------------------------------------------------------------
(* What a watcher was sent and will be sent. *)
Stream(w) == sent[w] \o chan[w]

(* The hub as EventLog sees it: how far a watcher has read is the last event it
   was sent, or the one before its replay; its stream ends where it stood when
   the channel was closed. *)
LogState(w) ==
  IF w \in subs THEN "reading"
  ELSE CASE watch[w] \in {"off", "found"} -> "off"
         [] watch[w] = "watching"         -> "draining"
         [] watch[w] = "over"             -> "over"

LogSeen(w) ==
  CASE sent[w] # <<>>                        -> sent[w][Len(sent[w])]
    [] sent[w] = <<>> /\ Stream(w) # <<>>    -> Stream(w)[1] - 1
    [] Stream(w) = <<>>                      -> 0

LogLimit(w) ==
  IF LogState(w) \in {"off", "reading"} \/ Stream(w) = <<>> THEN 0
  ELSE Stream(w)[Len(Stream(w))]

Log == INSTANCE EventLog WITH
         Listeners <- Watchers, Window <- HistSize, Slack <- ChanSize,
         last <- published,
         state <- [w \in Watchers |-> LogState(w)],
         seen <- [w \in Watchers |-> LogSeen(w)],
         limit <- [w \in Watchers |-> LogLimit(w)]

(* The hub implements the log, by everything it does: whatever a watcher joins
   in the middle of, it is sent the newest HistSize events and then every later
   one, none twice, none skipped, over the wraps of the ring; only a watcher
   whose full channel could take no more loses the rest. *)
ImplementsLog == Log!Spec

(* "The channel closes when the run ends": no watch handler hangs on a run that
   no longer exists. *)
WatchersReturn ==
  \A w \in Watchers : closed /\ watch[w] \in {"found", "watching"} ~> watch[w] = "over"

(* "The response writer is not safe to touch once [the handler] has
   [returned]": nobody is about to write to it then. *)
WriterNotUsedLate == returned /\ ~dead => \A e \in Emitters : pending[e] = 0
=============================================================================
