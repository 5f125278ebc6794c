----------------------------- MODULE RunHubProofs -----------------------------
(***************************************************************************)
(* That the hub implements the event log, for any watchers, any number of  *)
(* events and any capacities of the ring and of the channels.              *)
(*                                                                         *)
(* The invariant says what the ring and the channels hold: the ring the    *)
(* newest events, from its head on; a channel the events that follow what  *)
(* its watcher was sent, up to the newest as long as it is open.           *)
(***************************************************************************)
EXTENDS RunHub, SequenceTheorems, TLAPS

Events == Nat \ {0}

(* How far a watcher is that was sent s and has c in its channel, and the last
   event it will be sent. *)
SeenOf(s, c) == IF s # <<>> THEN s[Len(s)] ELSE IF c # <<>> THEN c[1] - 1 ELSE 0
EndOf(s, c) == IF c # <<>> THEN c[Len(c)] ELSE IF s # <<>> THEN s[Len(s)] ELSE 0

Follows(s, c) == \A i \in 1 .. Len(c) : c[i] = SeenOf(s, c) + i

Types ==
  /\ published \in Nat /\ closed \in BOOLEAN
  /\ ring \in Seq(Events) /\ head \in Nat /\ head < HistSize
  /\ subs \subseteq Watchers /\ (\A w \in subs : watch[w] = "watching")
  /\ chan \in [Watchers -> Seq(Events)]
  /\ sent \in [Watchers -> Seq(Events)]
  /\ watch \in [Watchers -> {"off", "found", "watching", "over"}]

(* The ring holds the newest events; the oldest is after head. *)
RingIsNewest ==
  /\ published < HistSize =>
       head = 0 /\ Len(ring) = published /\ \A j \in 1 .. published : ring[j] = j
  /\ published >= HistSize =>
       /\ Len(ring) = HistSize
       /\ \A j \in 1 .. HistSize :
            ring[j] = (IF j > head THEN published - HistSize ELSE published) - head + j

(* A channel holds the events after the last one sent, an open one up to the
   newest. *)
ChanFollows(w) ==
  /\ watch[w] \in {"off", "found"} => chan[w] = <<>> /\ sent[w] = <<>>
  /\ Follows(sent[w], chan[w])
  /\ w \in subs => SeenOf(sent[w], chan[w]) + Len(chan[w]) = published

IInv ==
  /\ Types /\ RingIsNewest
  /\ closed => subs = {}
  /\ \A w \in Watchers : ChanFollows(w)
-----------------------------------------------------------------------------
(* What the mapping reads off a watcher's stream. *)
LEMMA StreamEnds ==
  ASSUME NEW s \in Seq(Events), NEW c \in Seq(Events)
  PROVE  /\ (CASE s # <<>>                     -> s[Len(s)]
               [] s = <<>> /\ s \o c # <<>>    -> (s \o c)[1] - 1
               [] s \o c = <<>>                -> 0) = SeenOf(s, c)
         /\ (IF s \o c = <<>> THEN 0 ELSE (s \o c)[Len(s \o c)]) = EndOf(s, c)
<1>0. s \o c \in Seq(Events)
  BY ConcatProperties, Zenon
<1>2. /\ Len(s \o c) = Len(s) + Len(c)
      /\ \A i \in 1 .. Len(s) + Len(c) :
           (s \o c)[i] = IF i <= Len(s) THEN s[i] ELSE c[i - Len(s)]
  BY ConcatProperties, Zenon
<1>1. s \o c = <<>> <=> s = <<>> /\ c = <<>>
  <2>1. Len(s) \in Nat /\ Len(c) \in Nat
    OBVIOUS
  <2>2. (s = <<>> <=> Len(s) = 0) /\ (c = <<>> <=> Len(c) = 0)
    OBVIOUS
  <2>3. s \o c = <<>> <=> Len(s \o c) = 0
    BY <1>0, EmptySeq
  <2> QED
    BY <1>2, <2>1, <2>2, <2>3
<1>3. s = <<>> => s \o c = c
  BY ConcatEmptySeq, Zenon
<1>4. c = <<>> => s \o c = s
  BY ConcatEmptySeq, Zenon
<1>5. c # <<>> => (s \o c)[Len(s \o c)] = c[Len(c)]
  <2> SUFFICES ASSUME c # <<>> PROVE (s \o c)[Len(s \o c)] = c[Len(c)]
    OBVIOUS
  <2>1. Len(s) \in Nat /\ Len(c) \in Nat \ {0}
    OBVIOUS
  <2>2. /\ Len(s) + Len(c) \in 1 .. Len(s) + Len(c) /\ ~(Len(s) + Len(c) <= Len(s))
        /\ (Len(s) + Len(c)) - Len(s) = Len(c)
    BY <2>1
  <2> QED
    BY <1>2, <2>2
<1>6. (CASE s # <<>>                     -> s[Len(s)]
         [] s = <<>> /\ s \o c # <<>>    -> (s \o c)[1] - 1
         [] s \o c = <<>>                -> 0) = SeenOf(s, c)
  <2>1. CASE s # <<>>
    BY <1>1, <2>1 DEF SeenOf
  <2>2. CASE s = <<>> /\ c # <<>>
    BY <1>1, <1>3, <2>2 DEF SeenOf
  <2>3. CASE s = <<>> /\ c = <<>>
    BY <1>1, <2>3 DEF SeenOf
  <2> QED
    BY <2>1, <2>2, <2>3
<1>7. (IF s \o c = <<>> THEN 0 ELSE (s \o c)[Len(s \o c)]) = EndOf(s, c)
  BY <1>1, <1>4, <1>5 DEF EndOf
<1> QED
  BY <1>6, <1>7

LEMMA SeenIsNat ==
  ASSUME NEW s \in Seq(Events), NEW c \in Seq(Events)
  PROVE  SeenOf(s, c) \in Nat
<1>1. CASE s # <<>>
  <2>1. Len(s) \in 1 .. Len(s)
    BY <1>1
  <2>2. s[Len(s)] \in Events
    BY <2>1
  <2> QED
    BY <1>1, <2>2 DEF SeenOf, Events
<1>2. CASE s = <<>> /\ c # <<>>
  <2>1. 1 \in 1 .. Len(c)
    BY <1>2
  <2>2. c[1] \in Events
    BY <2>1
  <2> QED
    BY <1>2, <2>2 DEF SeenOf, Events
<1>3. CASE s = <<>> /\ c = <<>>
  BY <1>3 DEF SeenOf
<1> QED
  BY <1>1, <1>2, <1>3

(* The stream ends as far behind what was read as the channel is long. *)
LEMMA EndIsSeen ==
  ASSUME NEW s \in Seq(Events), NEW c \in Seq(Events), Follows(s, c)
  PROVE  EndOf(s, c) = SeenOf(s, c) + Len(c)
<1>0. SeenOf(s, c) \in Nat
  BY SeenIsNat
<1>1. CASE c # <<>>
  <2>1. Len(c) \in 1 .. Len(c)
    BY <1>1
  <2> QED
    BY <1>1, <2>1 DEF Follows, EndOf
<1>2. CASE c = <<>>
  BY <1>0, <1>2 DEF EndOf, SeenOf
<1> QED
  BY <1>1, <1>2

(* The next event goes into the channel. *)
LEMMA PutFollows ==
  ASSUME NEW s \in Seq(Events), NEW c \in Seq(Events), Follows(s, c), NEW ev,
         ev = SeenOf(s, c) + Len(c) + 1
  PROVE  /\ Append(c, ev) \in Seq(Events)
         /\ SeenOf(s, Append(c, ev)) = SeenOf(s, c)
         /\ Follows(s, Append(c, ev))
         /\ Len(Append(c, ev)) = Len(c) + 1
<1>1. SeenOf(s, c) \in Nat /\ Len(c) \in Nat
  BY SeenIsNat
<1>2. ev \in Events
  BY <1>1 DEF Events
<1>3. /\ Append(c, ev) \in Seq(Events) /\ Append(c, ev) # <<>>
      /\ Len(Append(c, ev)) = Len(c) + 1
      /\ \A i \in 1 .. Len(c) : Append(c, ev)[i] = c[i]
      /\ Append(c, ev)[Len(c) + 1] = ev
  BY <1>2, AppendProperties
<1>4. SeenOf(s, Append(c, ev)) = SeenOf(s, c)
  <2>1. CASE s # <<>>
    BY <2>1 DEF SeenOf
  <2>2. CASE s = <<>> /\ c # <<>>
    <3>1. 1 \in 1 .. Len(c)
      BY <2>2
    <3> QED
      BY <1>3, <2>2, <3>1 DEF SeenOf
  <2>3. CASE s = <<>> /\ c = <<>>
    <3>1. Len(c) = 0 /\ SeenOf(s, c) = 0
      BY <2>3 DEF SeenOf
    <3>2. Append(c, ev)[1] = 1
      BY <1>3, <3>1
    <3> QED
      BY <1>3, <2>3, <3>1, <3>2 DEF SeenOf
  <2> QED
    BY <2>1, <2>2, <2>3
<1>5. Follows(s, Append(c, ev))
  <2> SUFFICES ASSUME NEW i \in 1 .. Len(c) + 1
               PROVE  Append(c, ev)[i] = SeenOf(s, c) + i
    BY <1>3, <1>4 DEF Follows
  <2>1. CASE i \in 1 .. Len(c)
    BY <1>3, <2>1 DEF Follows
  <2>2. CASE i = Len(c) + 1
    BY <1>1, <1>3, <2>2
  <2> QED
    BY <1>1, <2>1, <2>2
<1> QED
  BY <1>3, <1>4, <1>5

(* The oldest event of the channel is sent. *)
LEMMA SendFollows ==
  ASSUME NEW s \in Seq(Events), NEW c \in Seq(Events), Follows(s, c), c # <<>>
  PROVE  /\ Append(s, Head(c)) \in Seq(Events) /\ Tail(c) \in Seq(Events)
         /\ SeenOf(Append(s, Head(c)), Tail(c)) = SeenOf(s, c) + 1
         /\ Follows(Append(s, Head(c)), Tail(c))
         /\ Len(Tail(c)) = Len(c) - 1 /\ Len(c) \in Nat \ {0}
<1>1. SeenOf(s, c) \in Nat /\ Len(c) \in Nat \ {0} /\ Len(s) \in Nat
  BY SeenIsNat
<1>2. /\ Head(c) \in Events /\ Head(c) = c[1] /\ Tail(c) \in Seq(Events)
      /\ Len(Tail(c)) = Len(c) - 1
      /\ \A i \in 1 .. Len(Tail(c)) : Tail(c)[i] = c[i + 1]
  BY HeadTailProperties
<1>3. Head(c) = SeenOf(s, c) + 1
  BY <1>1, <1>2 DEF Follows
<1>4. /\ Append(s, Head(c)) \in Seq(Events) /\ Append(s, Head(c)) # <<>>
      /\ Len(Append(s, Head(c))) = Len(s) + 1
      /\ Append(s, Head(c))[Len(s) + 1] = Head(c)
  BY <1>2, AppendProperties
<1>5. SeenOf(Append(s, Head(c)), Tail(c)) = SeenOf(s, c) + 1
  BY <1>3, <1>4 DEF SeenOf
<1>6. Follows(Append(s, Head(c)), Tail(c))
  <2> SUFFICES ASSUME NEW i \in 1 .. Len(Tail(c))
               PROVE  Tail(c)[i] = SeenOf(s, c) + 1 + i
    BY <1>5 DEF Follows
  <2>1. i + 1 \in 1 .. Len(c)
    BY <1>1, <1>2
  <2>2. c[i + 1] = SeenOf(s, c) + (i + 1)
    BY <2>1 DEF Follows
  <2> QED
    BY <1>1, <1>2, <2>2
<1> QED
  BY <1>1, <1>2, <1>4, <1>5, <1>6

(* The replay is the newest events, the oldest first. *)
LEMMA ReplayIsNewest ==
  ASSUME Types, RingIsNewest
  PROVE  /\ Replay \in Seq(Events)
         /\ published < HistSize =>
              Len(Replay) = published /\ \A i \in 1 .. published : Replay[i] = i
         /\ published >= HistSize =>
              /\ Len(Replay) = HistSize
              /\ \A i \in 1 .. HistSize : Replay[i] = published - HistSize + i
<1> USE RunHubAssumption DEF RunHubAssumption
<1>0. published \in Nat /\ ring \in Seq(Events) /\ head \in Nat /\ head < HistSize
  BY DEF Types
<1>1. CASE published < HistSize
  <2>1. Len(ring) = published /\ Replay = ring
    BY <1>0, <1>1 DEF RingIsNewest, Replay
  <2> QED
    BY <1>0, <1>1, <2>1 DEF RingIsNewest
<1>2. CASE published >= HistSize
  <2>1. Replay = [i \in 1 .. HistSize |-> ring[Wrap(head + i - 1) + 1]]
    BY <1>2 DEF RingIsNewest, Replay
  <2>2. ASSUME NEW i \in 1 .. HistSize
        PROVE  ring[Wrap(head + i - 1) + 1] = published - HistSize + i
    <3>1. Wrap(head + i - 1) + 1 \in 1 .. HistSize
      BY <1>0 DEF Wrap
    <3>2. QED
      BY <1>0, <1>2, <3>1 DEF Wrap, RingIsNewest
  <2>3. \A i \in 1 .. HistSize : Replay[i] = published - HistSize + i
    BY <2>1, <2>2
  <2>4. \A i \in 1 .. HistSize : published - HistSize + i \in Events
    BY <1>0, <1>2 DEF Events
  <2>5. Replay \in [1 .. HistSize -> Events]
    BY <2>1, <2>2, <2>4
  <2>6. Replay \in Seq(Events) /\ Len(Replay) = HistSize
    BY <2>5
  <2>7. QED
    BY <1>0, <1>2, <2>3, <2>6
<1>3. QED
  BY <1>0, <1>1, <1>2

LEMMA ReplayFollows ==
  ASSUME Types, RingIsNewest
  PROVE  /\ Replay \in Seq(Events)
         /\ SeenOf(<<>>, Replay) = IF published > HistSize THEN published - HistSize ELSE 0
         /\ Follows(<<>>, Replay)
         /\ SeenOf(<<>>, Replay) + Len(Replay) = published
<1> USE RunHubAssumption DEF RunHubAssumption
<1>0. published \in Nat /\ Replay \in Seq(Events)
  BY ReplayIsNewest DEF Types
<1>1. CASE published = 0
  <2>1. Len(Replay) = 0
    BY <1>1, ReplayIsNewest
  <2>2. Replay = <<>>
    BY <1>0, <2>1
  <2> QED
    BY <1>0, <1>1, <2>1, <2>2 DEF SeenOf, Follows
<1>2. CASE published # 0 /\ published < HistSize
  <2>1. Len(Replay) = published /\ \A i \in 1 .. published : Replay[i] = i
    BY <1>2, ReplayIsNewest
  <2>2. Replay # <<>> /\ Replay[1] = 1
    BY <1>0, <1>2, <2>1
  <2>3. SeenOf(<<>>, Replay) = 0
    BY <2>2 DEF SeenOf
  <2> QED
    BY <1>0, <1>2, <2>1, <2>3 DEF Follows
<1>3. CASE published >= HistSize
  <2>1. Len(Replay) = HistSize /\ \A i \in 1 .. HistSize : Replay[i] = published - HistSize + i
    BY <1>3, ReplayIsNewest
  <2>2. Replay # <<>> /\ Replay[1] = published - HistSize + 1
    BY <1>0, <1>3, <2>1
  <2>3. SeenOf(<<>>, Replay) = published - HistSize
    BY <1>0, <2>2 DEF SeenOf
  <2> QED
    BY <1>0, <1>3, <2>1, <2>3 DEF Follows
<1> QED
  BY <1>0, <1>1, <1>2, <1>3
-----------------------------------------------------------------------------
LEMMA InitIInv == Init => IInv
<1> SUFFICES ASSUME Init PROVE IInv
  OBVIOUS
<1> USE RunHubAssumption DEF RunHubAssumption
<1>0. <<>> \in Seq(Events) /\ Len(<<>>) = 0
  BY EmptySeq
<1>1. Types
  <2>1. published = 0 /\ head = 0 /\ closed = FALSE
    BY DEF Init
  <2>2. ring \in Seq(Events) /\ subs = {}
    BY <1>0 DEF Init
  <2>3. chan \in [Watchers -> Seq(Events)] /\ sent \in [Watchers -> Seq(Events)]
    BY <1>0, Zenon DEF Init
  <2>4. watch \in [Watchers -> {"off", "found", "watching", "over"}]
    BY DEF Init
  <2>5. head \in Nat /\ head < HistSize /\ published \in Nat
    BY <2>1
  <2>6. closed \in BOOLEAN
    BY <2>1, Zenon
  <2> QED
    BY <2>2, <2>3, <2>4, <2>5, <2>6, Zenon DEF Types
<1>2. RingIsNewest
  BY DEF Init, RingIsNewest
<1>3. ASSUME NEW w \in Watchers PROVE ChanFollows(w)
  <2>1. chan[w] = <<>> /\ sent[w] = <<>> /\ w \notin subs
    BY DEF Init
  <2>2. Follows(<<>>, <<>>)
    BY <1>0 DEF Follows
  <2> QED
    BY <2>1, <2>2 DEF ChanFollows
<1> QED
  BY <1>1, <1>2, <1>3 DEF IInv, Init

(* publish: the ring drops its oldest event, a channel with room gets the new one. *)
LEMMA RecordKeeps ==
  ASSUME Types, RingIsNewest, published' = published + 1, Record(published + 1)
  PROVE  ring' \in Seq(Events) /\ head' \in Nat /\ head' < HistSize /\ RingIsNewest'
<1> USE RunHubAssumption DEF RunHubAssumption
<1>0. published \in Nat /\ ring \in Seq(Events) /\ head \in Nat /\ head < HistSize
      /\ published + 1 \in Events /\ Len(ring) \in Nat
  BY DEF Types, Events
<1>1. CASE published < HistSize
  <2>1. head = 0 /\ Len(ring) = published /\ \A j \in 1 .. published : ring[j] = j
    BY <1>1 DEF RingIsNewest
  <2>2. ring' = Append(ring, published + 1) /\ head' = head
    BY <1>1, <2>1 DEF Record
  <2>3. /\ ring' \in Seq(Events) /\ Len(ring') = published + 1
        /\ \A j \in 1 .. published : ring'[j] = ring[j]
        /\ ring'[published + 1] = published + 1
    BY <1>0, <2>1, <2>2, AppendProperties
  <2>4. \A j \in 1 .. published + 1 : ring'[j] = j
    BY <1>0, <2>1, <2>3
  <2> QED
    BY <1>0, <1>1, <2>1, <2>2, <2>3, <2>4 DEF RingIsNewest
<1>2. CASE published >= HistSize
  <2>1. /\ Len(ring) = HistSize
        /\ \A j \in 1 .. HistSize :
             ring[j] = (IF j > head THEN published - HistSize ELSE published) - head + j
    BY <1>2 DEF RingIsNewest
  <2>2. ring' = [ring EXCEPT ![head + 1] = published + 1] /\ head' = Wrap(head + 1)
    BY <1>0, <2>1 DEF Record
  <2>3. head + 1 \in 1 .. Len(ring)
    BY <1>0, <2>1
  <2>4. /\ ring' \in Seq(Events) /\ Len(ring') = HistSize
        /\ \A j \in 1 .. HistSize : ring'[j] = IF j = head + 1 THEN published + 1 ELSE ring[j]
    BY <1>0, <2>1, <2>2, <2>3, ExceptSeq
  <2>5. head' \in Nat /\ head' < HistSize
        /\ head' = IF head + 1 < HistSize THEN head + 1 ELSE 0
    BY <1>0, <2>2 DEF Wrap
  <2>6. ASSUME NEW j \in 1 .. HistSize
        PROVE  ring'[j] = (IF j > head' THEN published' - HistSize ELSE published') - head' + j
    <3>1. published' = published + 1 /\ j \in Nat /\ 1 <= j /\ j <= HistSize
      OBVIOUS
    <3>2. CASE j = head + 1
      <4>1. ring'[j] = published + 1
        BY <2>4, <3>2
      <4> QED
        BY <1>0, <2>5, <3>1, <3>2, <4>1
    <3>3. CASE j # head + 1
      <4>1. ring'[j] = (IF j > head THEN published - HistSize ELSE published) - head + j
        BY <2>1, <2>4, <3>3
      <4> QED
        BY <1>0, <2>5, <3>1, <3>3, <4>1
    <3> QED
      BY <3>2, <3>3
  <2> QED
    BY <1>0, <1>2, <2>4, <2>5, <2>6 DEF RingIsNewest
<1> QED
  BY <1>0, <1>1, <1>2

LEMMA StepIInv == IInv /\ [Next]_vars => IInv'
<1> SUFFICES ASSUME IInv, [Next]_vars PROVE IInv'
  OBVIOUS
<1> USE DEF IInv
<1>0. /\ published \in Nat /\ subs \subseteq Watchers
      /\ \A w \in Watchers : chan[w] \in Seq(Events) /\ sent[w] \in Seq(Events)
  BY DEF Types
<1>1. ASSUME NEW e \in Emitters, Publish(e) PROVE IInv'
  <2> DEFINE full == {w \in subs : Len(chan[w]) = ChanSize}
  <2>1. /\ published' = published + 1 /\ Record(published + 1) /\ subs' = subs \ full
        /\ chan' = [w \in Watchers |->
             IF w \in subs \ full THEN Append(chan[w], published + 1) ELSE chan[w]]
        /\ UNCHANGED <<closed, watch, sent>>
    BY <1>1 DEF Publish, FanOut, watchVars
  <2>2. ring' \in Seq(Events) /\ head' \in Nat /\ head' < HistSize /\ RingIsNewest'
    BY <2>1, RecordKeeps
  <2> HIDE DEF full
  <2>3. ASSUME NEW w \in Watchers
        PROVE  chan'[w] \in Seq(Events) /\ ChanFollows(w)'
    <3>1. ChanFollows(w) /\ chan[w] \in Seq(Events) /\ sent[w] \in Seq(Events)
      BY <1>0
    <3>2. CASE w \in subs \ full
      <4>1. chan'[w] = Append(chan[w], published + 1) /\ watch[w] = "watching"
        BY <2>1, <3>2 DEF Types
      <4>2. published + 1 = SeenOf(sent[w], chan[w]) + Len(chan[w]) + 1
        BY <3>1, <3>2 DEF ChanFollows
      <4>3. /\ chan'[w] \in Seq(Events) /\ SeenOf(sent[w], chan'[w]) = SeenOf(sent[w], chan[w])
            /\ Follows(sent[w], chan'[w]) /\ Len(chan'[w]) = Len(chan[w]) + 1
        BY <3>1, <4>1, <4>2, PutFollows DEF ChanFollows
      <4>4. SeenOf(sent[w], chan[w]) \in Nat /\ Len(chan[w]) \in Nat
        BY <3>1, SeenIsNat
      <4> QED
        BY <1>0, <2>1, <4>1, <4>2, <4>3, <4>4 DEF ChanFollows
    <3>3. CASE w \notin subs \ full
      <4>1. chan'[w] = chan[w] /\ w \notin subs' /\ sent'[w] = sent[w] /\ watch'[w] = watch[w]
        BY <2>1, <3>3
      <4> QED
        BY <3>1, <4>1 DEF ChanFollows
    <3> QED
      BY <3>2, <3>3
  <2>4. Types'
    BY <1>0, <2>1, <2>2, <2>3 DEF Types
  <2> QED
    BY <2>1, <2>2, <2>3, <2>4
<1>2. ASSUME UNCHANGED <<published, ring, head, subs, closed, chan, watch, sent>> PROVE IInv'
  <2>1. Types'
    BY <1>2 DEF Types
  <2>2. RingIsNewest'
    BY <1>2 DEF RingIsNewest
  <2>3. \A w \in Watchers : ChanFollows(w)'
    BY <1>2 DEF ChanFollows
  <2> QED
    BY <1>2, <2>1, <2>2, <2>3
<1>3. ASSUME NEW e \in Emitters, EmitWrite(e) PROVE IInv'
  BY <1>2, <1>3 DEF EmitWrite, hubVars, watchVars
<1>4. CASE BeatFails \/ Return \/ UNCHANGED vars
  BY <1>2, <1>4 DEF BeatFails, Return, vars, hubVars, watchVars, emitVars
<1>5. CASE Close
  <2>1. subs' = {} /\ UNCHANGED <<published, ring, head, chan, watch, sent>> /\ closed' = TRUE
    BY <1>5 DEF Close, watchVars
  <2> QED
    BY <2>1 DEF Types, RingIsNewest, ChanFollows
<1>6. ASSUME NEW w \in Watchers, Find(w) PROVE IInv'
  <2>1. /\ watch[w] = "off" /\ watch' = [watch EXCEPT ![w] = "found"]
        /\ UNCHANGED <<published, ring, head, subs, closed, chan, sent>>
    BY <1>6 DEF Find, hubVars
  <2>2. w \notin subs
    BY <2>1 DEF Types
  <2> QED
    BY <2>1, <2>2 DEF Types, RingIsNewest, ChanFollows
<1>7. ASSUME NEW w \in Watchers, Subscribe(w) PROVE IInv'
  <2>1. /\ watch[w] = "found" /\ watch' = [watch EXCEPT ![w] = "watching"]
        /\ UNCHANGED <<published, ring, head, closed, sent>>
        /\ subs' = IF closed THEN subs ELSE subs \cup {w}
        /\ chan' = IF closed THEN chan ELSE [chan EXCEPT ![w] = Replay]
    BY <1>7 DEF Subscribe
  <2>2. chan[w] = <<>> /\ sent[w] = <<>> /\ w \notin subs
    BY <2>1 DEF Types, ChanFollows
  <2>3. Replay \in Seq(Events) /\ Follows(<<>>, Replay)
        /\ SeenOf(<<>>, Replay) + Len(Replay) = published
    BY ReplayFollows
  <2>4. Types'
    BY <2>1, <2>3 DEF Types
  <2>5. ASSUME NEW v \in Watchers PROVE ChanFollows(v)'
    <3>1. CASE v = w /\ ~closed
      <4>1. chan'[w] = Replay /\ sent'[w] = <<>> /\ watch'[w] = "watching"
        BY <2>1, <2>2, <3>1 DEF Types
      <4> QED
        BY <2>1, <2>3, <3>1, <4>1 DEF ChanFollows
    <3>2. CASE v = w /\ closed
      <4>1. chan'[w] = <<>> /\ sent'[w] = <<>> /\ watch'[w] = "watching" /\ w \notin subs'
        BY <2>1, <2>2, <3>2 DEF Types
      <4> QED
        BY <3>2, <4>1 DEF ChanFollows, Follows
    <3>3. CASE v # w
      <4>1. chan'[v] = chan[v] /\ watch'[v] = watch[v] /\ (v \in subs' <=> v \in subs)
        BY <2>1, <3>3 DEF Types
      <4> QED
        BY <2>1, <4>1 DEF ChanFollows
    <3> QED
      BY <3>1, <3>2, <3>3
  <2> QED
    BY <2>1, <2>4, <2>5 DEF RingIsNewest
<1>8. ASSUME NEW w \in Watchers, Forward(w) PROVE IInv'
  <2>1. /\ watch[w] = "watching" /\ chan[w] # <<>>
        /\ chan' = [chan EXCEPT ![w] = Tail(chan[w])]
        /\ sent' = [sent EXCEPT ![w] = Append(sent[w], Head(chan[w]))]
        /\ UNCHANGED <<published, ring, head, subs, closed, watch>>
    BY <1>8 DEF Forward
  <2>2. /\ Append(sent[w], Head(chan[w])) \in Seq(Events) /\ Tail(chan[w]) \in Seq(Events)
        /\ SeenOf(Append(sent[w], Head(chan[w])), Tail(chan[w])) = SeenOf(sent[w], chan[w]) + 1
        /\ Follows(Append(sent[w], Head(chan[w])), Tail(chan[w]))
        /\ Len(Tail(chan[w])) = Len(chan[w]) - 1 /\ Len(chan[w]) \in Nat \ {0}
    BY <1>0, <2>1, SendFollows DEF ChanFollows
  <2>3. Types'
    BY <2>1, <2>2 DEF Types
  <2>4. ASSUME NEW v \in Watchers PROVE ChanFollows(v)'
    <3>1. CASE v = w
      <4>1. chan'[w] = Tail(chan[w]) /\ sent'[w] = Append(sent[w], Head(chan[w]))
        BY <2>1 DEF Types
      <4>2. SeenOf(sent[w], chan[w]) \in Nat
        BY <1>0, SeenIsNat
      <4>3. w \in subs => SeenOf(sent'[w], chan'[w]) + Len(chan'[w]) = published
        BY <2>2, <4>1, <4>2 DEF ChanFollows
      <4> QED
        BY <2>1, <2>2, <3>1, <4>1, <4>3 DEF ChanFollows
    <3>2. CASE v # w
      <4>1. chan'[v] = chan[v] /\ sent'[v] = sent[v]
        BY <2>1, <3>2 DEF Types
      <4> QED
        BY <2>1, <4>1 DEF ChanFollows
    <3> QED
      BY <3>1, <3>2
  <2> QED
    BY <2>1, <2>3, <2>4 DEF RingIsNewest
<1>9. ASSUME NEW w \in Watchers, StreamEnd(w) \/ Leave(w) PROVE IInv'
  <2>1. /\ watch[w] = "watching" /\ watch' = [watch EXCEPT ![w] = "over"]
        /\ subs' = subs \ {w}
        /\ UNCHANGED <<published, ring, head, closed, chan, sent>>
    BY <1>9 DEF StreamEnd, Leave, hubVars
  <2> QED
    BY <2>1 DEF Types, RingIsNewest, ChanFollows
<1> QED
  BY <1>1, <1>3, <1>4, <1>5, <1>6, <1>7, <1>8, <1>9 DEF Next

(* The ring and the channels are what IInv says, always. *)
THEOREM RingAndChannels == Spec => []IInv
<1>1. Init => IInv
  BY InitIInv
<1>2. IInv /\ [Next]_vars => IInv'
  BY StepIInv
<1> QED
  BY <1>1, <1>2, PTL DEF Spec
-----------------------------------------------------------------------------
(* The state of the log, by the mapping. *)
StateNow == [w \in Watchers |-> LogState(w)]
SeenNow == [w \in Watchers |-> LogSeen(w)]
LimitNow == [w \in Watchers |-> LogLimit(w)]

LEMMA MappedNow ==
  ASSUME IInv, NEW w \in Watchers
  PROVE  /\ LogState(w) \in {"off", "reading", "draining", "over"}
         /\ LogState(w) = "reading" <=> w \in subs
         /\ LogState(w) = "off" <=> watch[w] \in {"off", "found"}
         /\ LogState(w) = "over" <=> watch[w] = "over"
         /\ LogSeen(w) = SeenOf(sent[w], chan[w])
         /\ LogLimit(w) = IF LogState(w) \in {"off", "reading"} THEN 0
                          ELSE SeenOf(sent[w], chan[w]) + Len(chan[w])
<1>1. sent[w] \in Seq(Events) /\ chan[w] \in Seq(Events) /\ Follows(sent[w], chan[w])
      /\ watch[w] \in {"off", "found", "watching", "over"}
      /\ (w \in subs => watch[w] = "watching")
  BY DEF IInv, Types, ChanFollows
<1>2. LogSeen(w) = SeenOf(sent[w], chan[w])
  BY <1>1, StreamEnds DEF LogSeen, Stream
<1>3. (IF Stream(w) = <<>> THEN 0 ELSE Stream(w)[Len(Stream(w))])
        = SeenOf(sent[w], chan[w]) + Len(chan[w])
  <2>1. (IF Stream(w) = <<>> THEN 0 ELSE Stream(w)[Len(Stream(w))]) = EndOf(sent[w], chan[w])
    BY <1>1, StreamEnds DEF Stream
  <2> QED
    BY <1>1, <2>1, EndIsSeen
<1>4. LogLimit(w) = IF LogState(w) \in {"off", "reading"} THEN 0
                    ELSE SeenOf(sent[w], chan[w]) + Len(chan[w])
  BY <1>3 DEF LogLimit
<1>5. /\ LogState(w) \in {"off", "reading", "draining", "over"}
      /\ LogState(w) = "reading" <=> w \in subs
      /\ LogState(w) = "off" <=> watch[w] \in {"off", "found"}
      /\ LogState(w) = "over" <=> watch[w] = "over"
  BY <1>1 DEF LogState
<1> QED
  BY <1>2, <1>4, <1>5

(* The same of the next state. *)
LEMMA MappedNext ==
  ASSUME IInv', NEW w \in Watchers
  PROVE  /\ LogState(w)' \in {"off", "reading", "draining", "over"}
         /\ LogState(w)' = "reading" <=> w \in subs'
         /\ LogState(w)' = "off" <=> watch'[w] \in {"off", "found"}
         /\ LogState(w)' = "over" <=> watch'[w] = "over"
         /\ LogSeen(w)' = SeenOf(sent'[w], chan'[w])
         /\ LogLimit(w)' = IF LogState(w)' \in {"off", "reading"} THEN 0
                           ELSE SeenOf(sent'[w], chan'[w]) + Len(chan'[w])
<1>1. sent'[w] \in Seq(Events) /\ chan'[w] \in Seq(Events) /\ Follows(sent'[w], chan'[w])
      /\ watch'[w] \in {"off", "found", "watching", "over"}
      /\ (w \in subs' => watch'[w] = "watching")
  BY DEF IInv, Types, ChanFollows
<1>2. LogSeen(w)' = SeenOf(sent'[w], chan'[w])
  BY <1>1, StreamEnds DEF LogSeen, Stream
<1>3. (IF Stream(w)' = <<>> THEN 0 ELSE Stream(w)'[Len(Stream(w)')])
        = SeenOf(sent'[w], chan'[w]) + Len(chan'[w])
  <2>1. (IF Stream(w)' = <<>> THEN 0 ELSE Stream(w)'[Len(Stream(w)')]) = EndOf(sent'[w], chan'[w])
    BY <1>1, StreamEnds DEF Stream
  <2> QED
    BY <1>1, <2>1, EndIsSeen
<1>4. LogLimit(w)' = IF LogState(w)' \in {"off", "reading"} THEN 0
                     ELSE SeenOf(sent'[w], chan'[w]) + Len(chan'[w])
  BY <1>3 DEF LogLimit
<1>5. /\ LogState(w)' \in {"off", "reading", "draining", "over"}
      /\ LogState(w)' = "reading" <=> w \in subs'
      /\ LogState(w)' = "off" <=> watch'[w] \in {"off", "found"}
      /\ LogState(w)' = "over" <=> watch'[w] = "over"
  BY <1>1 DEF LogState
<1> QED
  BY <1>2, <1>4, <1>5

LEMMA InitMaps == Init => Log!Init
<1> SUFFICES ASSUME Init PROVE Log!Init
  OBVIOUS
<1>1. IInv
  BY InitIInv
<1>2. ASSUME NEW w \in Watchers
      PROVE  LogState(w) = "off" /\ LogSeen(w) = 0 /\ LogLimit(w) = 0
  <2>1. watch[w] = "off" /\ sent[w] = <<>> /\ chan[w] = <<>>
    BY DEF Init
  <2> QED
    BY <1>1, <2>1, MappedNow DEF SeenOf
<1> QED
  BY <1>2 DEF Init, Log!Init

(* A step that leaves the channels alone leaves the log alone. *)
LEMMA StutterMaps ==
  ASSUME IInv, IInv', UNCHANGED <<published, subs, chan, sent>>,
         \A w \in Watchers : watch[w] \in {"off", "found"} <=> watch'[w] \in {"off", "found"},
         \A w \in Watchers : watch[w] = "over" <=> watch'[w] = "over"
  PROVE  UNCHANGED <<published, StateNow, SeenNow, LimitNow>>
<1>1. ASSUME NEW w \in Watchers
      PROVE  LogState(w)' = LogState(w) /\ LogSeen(w)' = LogSeen(w) /\ LogLimit(w)' = LogLimit(w)
  <2>1. LogSeen(w)' = LogSeen(w)
    BY MappedNow, MappedNext
  <2>2. LogState(w)' = LogState(w)
    BY MappedNow, MappedNext
  <2> QED
    BY <2>1, <2>2, MappedNow, MappedNext
<1> QED
  BY <1>1 DEF StateNow, SeenNow, LimitNow

(* What the other watchers read is left as it is by a step of w. *)
LEMMA OthersMap ==
  ASSUME IInv, IInv', NEW v \in Watchers, published' = published,
         chan'[v] = chan[v], sent'[v] = sent[v], watch'[v] = watch[v], v \in subs' <=> v \in subs
  PROVE  LogState(v)' = LogState(v) /\ LogSeen(v)' = LogSeen(v) /\ LogLimit(v)' = LogLimit(v)
<1>1. LogSeen(v)' = LogSeen(v)
  BY MappedNow, MappedNext
<1>2. LogState(v)' = LogState(v)
  BY MappedNow, MappedNext
<1> QED
  BY <1>1, <1>2, MappedNow, MappedNext

(* publish is a write of the log: the watchers whose channel is full are cut off at
   the event before. *)
LEMMA PublishMaps ==
  ASSUME IInv, IInv', NEW e \in Emitters, Publish(e)
  PROVE  Log!Write
<1> DEFINE full == {w \in subs : Len(chan[w]) = ChanSize}
<1>1. /\ published' = published + 1 /\ subs' = subs \ full
      /\ chan' = [w \in Watchers |->
           IF w \in subs \ full THEN Append(chan[w], published + 1) ELSE chan[w]]
      /\ UNCHANGED <<watch, sent>>
  BY DEF Publish, FanOut, watchVars
<1>2. /\ published \in Nat /\ subs \subseteq Watchers
      /\ \A w \in Watchers : chan[w] \in Seq(Events) /\ sent[w] \in Seq(Events) /\ ChanFollows(w)
  BY DEF IInv, Types
<1>3. full \subseteq {w \in Log!Reading : published - SeenNow[w] >= ChanSize}
  <2> SUFFICES ASSUME NEW w \in full
               PROVE  w \in Log!Reading /\ published - SeenNow[w] >= ChanSize
    OBVIOUS
  <2>1. w \in Watchers /\ w \in subs /\ Len(chan[w]) = ChanSize
    BY <1>2
  <2>2. LogState(w) = "reading" /\ SeenNow[w] = SeenOf(sent[w], chan[w])
    BY <2>1, MappedNow DEF SeenNow
  <2>3. SeenOf(sent[w], chan[w]) \in Nat /\ SeenOf(sent[w], chan[w]) + Len(chan[w]) = published
    BY <1>2, <2>1, SeenIsNat DEF ChanFollows
  <2>4. published - SeenNow[w] >= ChanSize
    BY <2>1, <2>2, <2>3, RunHubAssumption DEF RunHubAssumption
  <2> QED
    BY <2>1, <2>2, <2>4 DEF Log!Reading
<1>4. ASSUME NEW w \in Watchers
      PROVE  /\ LogState(w)' = IF w \in full THEN "draining" ELSE LogState(w)
             /\ LogSeen(w)' = LogSeen(w)
             /\ LogLimit(w)' = IF w \in full THEN published ELSE LogLimit(w)
  <2>1. CASE w \in subs \ full
    <3>1. chan'[w] = Append(chan[w], published + 1) /\ w \in subs' /\ sent'[w] = sent[w]
      BY <1>1, <2>1
    <3>2. SeenOf(sent[w], chan'[w]) = SeenOf(sent[w], chan[w])
      BY <1>2, <2>1, <3>1, PutFollows DEF ChanFollows
    <3> QED
      BY <2>1, <3>1, <3>2, MappedNow, MappedNext
  <2>2. CASE w \in full
    <3>1. chan'[w] = chan[w] /\ w \in subs /\ w \notin subs' /\ sent'[w] = sent[w]
          /\ watch'[w] = "watching"
      BY <1>1, <2>2 DEF IInv, Types
    <3>2. LogState(w)' = "draining"
      BY <3>1, MappedNext
    <3> QED
      BY <1>2, <2>2, <3>1, <3>2, MappedNow, MappedNext DEF ChanFollows
  <2>3. CASE w \notin subs
    <3>1. chan'[w] = chan[w] /\ w \notin subs' /\ sent'[w] = sent[w] /\ watch'[w] = watch[w]
      BY <1>1, <2>3
    <3>2. LogState(w)' = LogState(w) /\ LogSeen(w)' = LogSeen(w)
      BY <2>3, <3>1, MappedNow, MappedNext
    <3> QED
      BY <2>3, <3>1, <3>2, MappedNow, MappedNext
  <2> QED
    BY <2>1, <2>2, <2>3
<1> HIDE DEF full
<1>5. Log!CutOff(full)
  BY <1>1, <1>4 DEF Log!CutOff
<1>6. full \in SUBSET {w \in Log!Reading : published - SeenNow[w] >= ChanSize}
  BY <1>3
<1> QED
  BY <1>1, <1>5, <1>6 DEF Log!Write, SeenNow

(* end: every open channel is closed where the log ends. *)
LEMMA CloseMaps ==
  ASSUME IInv, IInv', Close
  PROVE  Log!Close
<1>1. subs' = {} /\ UNCHANGED <<published, chan, watch, sent>>
  BY DEF Close, watchVars
<1>2. ASSUME NEW w \in Watchers
      PROVE  /\ LogState(w)' = IF w \in subs THEN "draining" ELSE LogState(w)
             /\ LogSeen(w)' = LogSeen(w)
             /\ LogLimit(w)' = IF w \in subs THEN published ELSE LogLimit(w)
  <2>1. CASE w \in subs
    <3>1. chan'[w] = chan[w] /\ sent'[w] = sent[w] /\ watch'[w] = "watching" /\ w \notin subs'
      BY <1>1, <2>1 DEF IInv, Types
    <3>2. LogState(w)' = "draining"
      BY <3>1, MappedNext
    <3> QED
      BY <2>1, <3>1, <3>2, MappedNow, MappedNext DEF IInv, ChanFollows
  <2>2. CASE w \notin subs
    BY <1>1, <2>2, OthersMap
  <2> QED
    BY <2>1, <2>2
<1>3. Log!Reading = subs
  BY MappedNow DEF Log!Reading, IInv, Types
<1>4. Log!CutOff(subs)
  BY <1>1, <1>2 DEF Log!CutOff
<1> QED
  BY <1>1, <1>3, <1>4 DEF Log!Close

(* subscribe: a watcher joins at the oldest event of the ring, or too late. *)
LEMMA SubscribeMaps ==
  ASSUME IInv, IInv', NEW w \in Watchers, Subscribe(w)
  PROVE  Log!Join(w) \/ Log!JoinLate(w)
<1>1. /\ watch[w] = "found" /\ watch' = [watch EXCEPT ![w] = "watching"]
      /\ UNCHANGED <<published, sent>>
      /\ subs' = IF closed THEN subs ELSE subs \cup {w}
      /\ chan' = IF closed THEN chan ELSE [chan EXCEPT ![w] = Replay]
  BY DEF Subscribe
<1>2. w \notin subs /\ chan[w] = <<>> /\ sent[w] = <<>>
  BY <1>1 DEF IInv, Types, ChanFollows
<1>3. LogState(w) = "off" /\ LogSeen(w) = 0 /\ LogLimit(w) = 0
  BY <1>1, <1>2, MappedNow DEF SeenOf
<1>4. watch'[w] = "watching"
  BY <1>1 DEF IInv, Types
<1>5. ASSUME NEW v \in Watchers, v # w
      PROVE  LogState(v)' = LogState(v) /\ LogSeen(v)' = LogSeen(v) /\ LogLimit(v)' = LogLimit(v)
  <2>1. chan'[v] = chan[v] /\ sent'[v] = sent[v] /\ watch'[v] = watch[v] /\ (v \in subs' <=> v \in subs)
    BY <1>1, <1>5 DEF IInv, Types
  <2> QED
    BY <1>1, <2>1, OthersMap
<1>6. CASE ~closed
  <2>1. w \in subs' /\ chan'[w] = Replay /\ sent'[w] = <<>>
    BY <1>1, <1>2, <1>6 DEF IInv, Types
  <2>2. SeenOf(<<>>, Replay) = IF published > HistSize THEN published - HistSize ELSE 0
    BY ReplayFollows DEF IInv
  <2>3. /\ LogState(w)' = "reading" /\ LogLimit(w)' = LogLimit(w)
        /\ LogSeen(w)' = IF published > HistSize THEN published - HistSize ELSE 0
    BY <1>3, <2>1, <2>2, MappedNext
  <2>4. Log!Join(w)
    BY <1>1, <1>3, <1>5, <2>3 DEF Log!Join
  <2> QED
    BY <2>4
<1>7. CASE closed
  <2>1. w \notin subs' /\ chan'[w] = <<>> /\ sent'[w] = <<>>
    BY <1>1, <1>2, <1>7
  <2>2. LogState(w)' = "draining" /\ LogSeen(w)' = 0
    BY <1>4, <2>1, MappedNext DEF SeenOf
  <2>3. LogLimit(w)' = 0
    BY <1>3, <2>1, <2>2, MappedNow, MappedNext, EmptySeq DEF SeenOf
  <2>4. Log!JoinLate(w)
    BY <1>1, <1>3, <1>5, <2>2, <2>3 DEF Log!JoinLate
  <2> QED
    BY <2>4
<1> QED
  BY <1>6, <1>7

(* An event that is forwarded is the next one. *)
LEMMA ForwardMaps ==
  ASSUME IInv, IInv', NEW w \in Watchers, Forward(w)
  PROVE  Log!Read(w)
<1>1. /\ watch[w] = "watching" /\ chan[w] # <<>>
      /\ chan' = [chan EXCEPT ![w] = Tail(chan[w])]
      /\ sent' = [sent EXCEPT ![w] = Append(sent[w], Head(chan[w]))]
      /\ UNCHANGED <<published, subs, watch>>
  BY DEF Forward
<1>2. /\ chan[w] \in Seq(Events) /\ sent[w] \in Seq(Events) /\ ChanFollows(w)
      /\ chan'[w] = Tail(chan[w]) /\ sent'[w] = Append(sent[w], Head(chan[w]))
  BY <1>1 DEF IInv, Types
<1>3. /\ SeenOf(sent'[w], chan'[w]) = SeenOf(sent[w], chan[w]) + 1
      /\ Len(chan'[w]) = Len(chan[w]) - 1 /\ Len(chan[w]) \in Nat \ {0}
      /\ SeenOf(sent[w], chan[w]) \in Nat
  BY <1>1, <1>2, SendFollows, SeenIsNat DEF ChanFollows
<1>4. LogState(w)' = LogState(w) /\ LogState(w) \in {"reading", "draining"}
  BY <1>1, MappedNow, MappedNext
<1>5. LogSeen(w)' = LogSeen(w) + 1
  BY <1>3, MappedNow, MappedNext
<1>6. LogLimit(w)' = LogLimit(w)
  <2>1. SeenOf(sent'[w], chan'[w]) + Len(chan'[w]) = SeenOf(sent[w], chan[w]) + Len(chan[w])
    BY <1>3
  <2> QED
    BY <1>4, <2>1, MappedNow, MappedNext
<1>7. \/ LogState(w) = "reading" /\ LogSeen(w) < published
      \/ LogState(w) = "draining" /\ LogSeen(w) < LogLimit(w)
  <2>1. LogSeen(w) < SeenOf(sent[w], chan[w]) + Len(chan[w])
    BY <1>3, MappedNow
  <2>2. w \in subs => SeenOf(sent[w], chan[w]) + Len(chan[w]) = published
    BY <1>2 DEF ChanFollows
  <2> QED
    BY <1>4, <2>1, <2>2, MappedNow
<1>8. ASSUME NEW v \in Watchers, v # w
      PROVE  LogState(v)' = LogState(v) /\ LogSeen(v)' = LogSeen(v) /\ LogLimit(v)' = LogLimit(v)
  <2>1. chan'[v] = chan[v] /\ sent'[v] = sent[v] /\ watch'[v] = watch[v] /\ (v \in subs' <=> v \in subs)
    BY <1>1, <1>8 DEF IInv, Types
  <2> QED
    BY <1>1, <2>1, OthersMap
<1> QED
  BY <1>1, <1>4, <1>5, <1>6, <1>7, <1>8 DEF Log!Read

LEMMA StreamEndMaps ==
  ASSUME IInv, IInv', NEW w \in Watchers, StreamEnd(w)
  PROVE  Log!Finish(w)
<1>1. /\ watch[w] = "watching" /\ w \notin subs /\ chan[w] = <<>>
      /\ watch' = [watch EXCEPT ![w] = "over"]
      /\ UNCHANGED <<published, subs, chan, sent>>
  BY DEF StreamEnd, hubVars
<1>2. watch'[w] = "over" /\ chan[w] \in Seq(Events) /\ sent[w] \in Seq(Events)
  BY <1>1 DEF IInv, Types
<1>3. LogState(w) = "draining" /\ LogState(w)' = "over"
  BY <1>1, <1>2, MappedNow, MappedNext
<1>4. LogSeen(w)' = LogSeen(w) /\ LogLimit(w)' = LogLimit(w)
  BY <1>1, <1>3, MappedNow, MappedNext
<1>5. LogSeen(w) = LogLimit(w)
  <2>1. Len(chan[w]) = 0 /\ SeenOf(sent[w], chan[w]) \in Nat
    BY <1>1, <1>2, EmptySeq, SeenIsNat
  <2>2. SeenOf(sent[w], chan[w]) + Len(chan[w]) = SeenOf(sent[w], chan[w])
    BY <2>1
  <2> QED
    BY <1>3, <2>2, MappedNow
<1>6. ASSUME NEW v \in Watchers, v # w
      PROVE  LogState(v)' = LogState(v) /\ LogSeen(v)' = LogSeen(v) /\ LogLimit(v)' = LogLimit(v)
  <2>1. chan'[v] = chan[v] /\ sent'[v] = sent[v] /\ watch'[v] = watch[v] /\ (v \in subs' <=> v \in subs)
    BY <1>1, <1>6 DEF IInv, Types
  <2> QED
    BY <1>1, <2>1, OthersMap
<1> QED
  BY <1>1, <1>3, <1>4, <1>5, <1>6 DEF Log!Finish

LEMMA LeaveMaps ==
  ASSUME IInv, IInv', NEW w \in Watchers, Leave(w)
  PROVE  Log!Leave(w)
<1>1. /\ watch[w] = "watching" /\ watch' = [watch EXCEPT ![w] = "over"] /\ subs' = subs \ {w}
      /\ UNCHANGED <<published, chan, sent>>
  BY DEF Leave
<1>2. watch'[w] = "over" /\ w \notin subs' /\ ChanFollows(w)
  BY <1>1 DEF IInv, Types
<1>3. /\ LogState(w) \in {"reading", "draining"} /\ LogState(w)' = "over"
      /\ LogSeen(w)' = LogSeen(w)
  BY <1>1, <1>2, MappedNow, MappedNext
<1>4. LogLimit(w)' = IF LogState(w) = "reading" THEN published ELSE LogLimit(w)
  <2>1. LogLimit(w)' = SeenOf(sent[w], chan[w]) + Len(chan[w])
    BY <1>1, <1>3, MappedNext
  <2>2. CASE w \in subs
    BY <1>2, <2>1, <2>2, MappedNow DEF ChanFollows
  <2>3. CASE w \notin subs
    BY <1>3, <2>1, <2>3, MappedNow
  <2> QED
    BY <2>2, <2>3
<1>5. ASSUME NEW v \in Watchers, v # w
      PROVE  LogState(v)' = LogState(v) /\ LogSeen(v)' = LogSeen(v) /\ LogLimit(v)' = LogLimit(v)
  <2>1. chan'[v] = chan[v] /\ sent'[v] = sent[v] /\ watch'[v] = watch[v] /\ (v \in subs' <=> v \in subs)
    BY <1>1, <1>5 DEF IInv, Types
  <2> QED
    BY <1>1, <2>1, OthersMap
<1> QED
  BY <1>1, <1>3, <1>4, <1>5 DEF Log!Leave

LEMMA StepMaps ==
  ASSUME IInv, IInv', [Next]_vars
  PROVE  [Log!Next]_Log!logVars
<1>0. UNCHANGED <<published, StateNow, SeenNow, LimitNow>> => UNCHANGED Log!logVars
  BY DEF Log!logVars, StateNow, SeenNow, LimitNow
<1>1. CASE UNCHANGED vars \/ BeatFails \/ Return \/ (\E e \in Emitters : EmitWrite(e))
  <2>1. UNCHANGED <<published, subs, chan, sent, watch>>
    BY <1>1 DEF BeatFails, Return, EmitWrite, vars, hubVars, watchVars
  <2> QED
    BY <1>0, <2>1, StutterMaps
<1>2. ASSUME NEW e \in Emitters, Publish(e) PROVE Log!Next
  BY <1>2, PublishMaps DEF Log!Next
<1>3. ASSUME Close PROVE Log!Next
  BY <1>3, CloseMaps DEF Log!Next
<1>4. ASSUME NEW w \in Watchers, Find(w) PROVE UNCHANGED Log!logVars
  <2>1. /\ UNCHANGED <<published, subs, chan, sent>>
        /\ watch[w] = "off" /\ watch' = [watch EXCEPT ![w] = "found"]
    BY <1>4 DEF Find, hubVars
  <2>2. \A v \in Watchers :
          /\ watch[v] \in {"off", "found"} <=> watch'[v] \in {"off", "found"}
          /\ watch[v] = "over" <=> watch'[v] = "over"
    BY <2>1 DEF IInv, Types
  <2> QED
    BY <1>0, <2>1, <2>2, StutterMaps
<1>5. ASSUME NEW w \in Watchers, Subscribe(w) PROVE Log!Next
  BY <1>5, SubscribeMaps DEF Log!Next
<1>6. ASSUME NEW w \in Watchers, Forward(w) PROVE Log!Next
  BY <1>6, ForwardMaps DEF Log!Next
<1>7. ASSUME NEW w \in Watchers, StreamEnd(w) PROVE Log!Next
  BY <1>7, StreamEndMaps DEF Log!Next
<1>8. ASSUME NEW w \in Watchers, Leave(w) PROVE Log!Next
  BY <1>8, LeaveMaps DEF Log!Next
<1> QED
  BY <1>1, <1>2, <1>3, <1>4, <1>5, <1>6, <1>7, <1>8 DEF Next

(* The hub implements the log: whatever a watcher joins in the middle of, it is sent
   the newest events the ring held and then every later one, none twice, none skipped;
   only a watcher whose full channel could take no more loses the rest. *)
THEOREM HubImplementsLog == Spec => ImplementsLog
<1>1. Init => Log!Init
  BY InitMaps
<1>2. IInv /\ IInv' /\ [Next]_vars => [Log!Next]_Log!logVars
  BY StepMaps
<1> QED
  BY <1>1, <1>2, RingAndChannels, PTL DEF Spec, ImplementsLog, Log!Spec
=============================================================================
