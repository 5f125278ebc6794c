------------------------------ MODULE EventLog ------------------------------
(***************************************************************************)
(* What the listeners of a run are promised, without rings or channels:    *)
(* the run writes a log of events, a listener joins somewhere in it and    *)
(* reads on without a gap, and its stream ends at the log's end, or, for a *)
(* listener that fell too far behind, earlier.  RunHub implements it.      *)
(***************************************************************************)
EXTENDS Naturals

CONSTANTS
  Listeners,
  Window,    (* how far back a listener that joins begins                  *)
  Slack      (* how far behind a listener may be cut off                   *)

VARIABLES
  last,      (* the events are 1 .. last                                   *)
  state,     (* off, reading, draining (the end of its stream is set), over *)
  seen,      (* the last event the listener read, or where it began        *)
  limit      (* where the stream of a draining listener ends               *)

logVars == <<last, state, seen, limit>>

Init ==
  /\ last = 0
  /\ state = [l \in Listeners |-> "off"]
  /\ seen = [l \in Listeners |-> 0]
  /\ limit = [l \in Listeners |-> 0]

(* The streams of the listeners in `cut` will end with the event `last`. *)
CutOff(cut) ==
  /\ state' = [l \in Listeners |-> IF l \in cut THEN "draining" ELSE state[l]]
  /\ limit' = [l \in Listeners |-> IF l \in cut THEN last ELSE limit[l]]
  /\ seen' = seen

Reading == {l \in Listeners : state[l] = "reading"}

(* A new event; listeners that have Slack events before them may lose it. *)
Write ==
  /\ last' = last + 1
  /\ \E cut \in SUBSET {l \in Reading : last - seen[l] >= Slack} : CutOff(cut)

(* The end of the run, for every listener. *)
Close ==
  /\ last' = last
  /\ CutOff(Reading)

Join(l) ==
  /\ state[l] = "off"
  /\ state' = [state EXCEPT ![l] = "reading"]
  /\ seen' = [seen EXCEPT ![l] = IF last > Window THEN last - Window ELSE 0]
  /\ UNCHANGED <<last, limit>>

(* Joining after the run: an empty stream. *)
JoinLate(l) ==
  /\ state[l] = "off"
  /\ state' = [state EXCEPT ![l] = "draining"]
  /\ limit' = [limit EXCEPT ![l] = seen[l]]
  /\ UNCHANGED <<last, seen>>

Read(l) ==
  /\ \/ state[l] = "reading" /\ seen[l] < last
     \/ state[l] = "draining" /\ seen[l] < limit[l]
  /\ seen' = [seen EXCEPT ![l] = @ + 1]
  /\ UNCHANGED <<last, state, limit>>

(* The stream is over once it is read to its end. *)
Finish(l) ==
  /\ state[l] = "draining" /\ seen[l] = limit[l]
  /\ state' = [state EXCEPT ![l] = "over"]
  /\ UNCHANGED <<last, seen, limit>>

(* The listener goes away. *)
Leave(l) ==
  /\ state[l] \in {"reading", "draining"}
  /\ state' = [state EXCEPT ![l] = "over"]
  /\ limit' = [limit EXCEPT ![l] = IF state[l] = "reading" THEN last ELSE @]
  /\ UNCHANGED <<last, seen>>

Next ==
  \/ Write \/ Close
  \/ \E l \in Listeners : Join(l) \/ JoinLate(l) \/ Read(l) \/ Finish(l) \/ Leave(l)

Spec == Init /\ [][Next]_logVars
=============================================================================
