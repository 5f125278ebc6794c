----------------------------- MODULE TurnQueue -----------------------------
(***************************************************************************)
(* turnQueue of internal/server/turns.go as a value: the follow-ups        *)
(* (pending) and the steered messages (steers) of one queue object, its    *)
(* methods, and the two conversions between the object and the rows of     *)
(* queued_messages.  Every method holds the object's mutex, so each is one *)
(* operator; who calls it, on which object and when it is written through  *)
(* is in ChatTurns.                                                        *)
(*                                                                         *)
(* A message's text and attachments are the message itself.                *)
(***************************************************************************)
EXTENDS Naturals, Sequences, FiniteSets, SequencesExt

EmptyQueue == [pending |-> <<>>, steers |-> <<>>]

Ids(s) == {s[i].id : i \in DOMAIN s}
Msgs(s) == {s[i].msg : i \in DOMAIN s}
Queued(q) == Msgs(q.pending) \cup Msgs(q.steers)

(* The positions ks of a list, in order, and the elements of s that are there. *)
InOrder(ks) ==
  CHOOSE at \in [1 .. Cardinality(ks) -> ks] : \A i, j \in DOMAIN at : i < j => at[i] < at[j]

Part(s, ks) == LET at == InOrder(ks) IN [k \in DOMAIN at |-> s[at[k]]]

(* SelectSeq by positions: the provers know no induction over a sequence. *)
Select(s, Test(_)) == Part(s, {i \in DOMAIN s : Test(s[i])})

IsHeld(e) == e.held
IsFree(e) == ~e.held

(* heldCount() > 0 *)
AnyHeld(q) == \E i \in DOMAIN q.pending : IsHeld(q.pending[i])

Add(q, id, msg) ==
  [q EXCEPT !.pending = Append(@, [id |-> id, msg |-> msg, held |-> FALSE])]

RemoveId(q, id) == [q EXCEPT !.pending = Select(@, LAMBDA e : e.id # id)]

(* hold(id, held); edit(id, text) is the release, its text is left out. *)
SetHeld(q, id, held) ==
  [q EXCEPT !.pending =
     [i \in DOMAIN @ |-> IF @[i].id = id THEN [@[i] EXCEPT !.held = held] ELSE @[i]]]

SteerId(q, id) ==
  [pending |-> Select(q.pending, LAMBDA e : e.id # id),
   steers  |-> q.steers \o Select(q.pending, LAMBDA e : e.id = id)]

(* reorder accepts exactly a permutation of the pending ids. *)
IsReorder(q, ids) == Len(ids) = Len(q.pending) /\ ToSet(ids) = Ids(q.pending)

Reorder(q, ids) ==
  [q EXCEPT !.pending =
     [i \in DOMAIN ids |-> CHOOSE e \in ToSet(@) : e.id = ids[i]]]

(* What drain hands out: unconsumed steers, then the follow-ups not held ... *)
Drained(q) == q.steers \o Select(q.pending, IsFree)

(* ... and what it leaves. *)
Kept(q) == [pending |-> Select(q.pending, IsHeld), steers |-> <<>>]

(* What steerDrain leaves. *)
NoSteers(q) == [q EXCEPT !.steers = <<>>]

-----------------------------------------------------------------------------
(* persistLocked: the rows that replace the session's in one transaction.
   A steered row keeps no hold. *)
Snapshot(q) ==
  LET Row(e, steer, pos) == [id |-> e.id, msg |-> e.msg, steer |-> steer,
                             held |-> IF steer THEN FALSE ELSE e.held, pos |-> pos]
  IN [i \in 1 .. Len(q.pending) + Len(q.steers) |->
        IF i <= Len(q.pending) THEN Row(q.pending[i], FALSE, i - 1)
                               ELSE Row(q.steers[i - Len(q.pending)], TRUE, i - 1)]

(* A bug to catch: loadQueue forgets that a message was being edited. *)
HydrateUnheld(rows) ==
  LET Entries(steer) == Select(rows, LAMBDA r : r.steer = steer)
      Loaded(s) == [i \in DOMAIN s |-> [id |-> s[i].id, msg |-> s[i].msg, held |-> FALSE]]
  IN [pending |-> Loaded(Entries(FALSE)), steers |-> Loaded(Entries(TRUE))]

(* loadQueue: a fresh object with the session's rows, read in order. *)
Hydrate(rows) ==
  LET Entries(steer) == Select(rows, LAMBDA r : r.steer = steer)
      Loaded(s) == [i \in DOMAIN s |-> [id |-> s[i].id, msg |-> s[i].msg, held |-> s[i].held]]
  IN [pending |-> Loaded(Entries(FALSE)), steers |-> Loaded(Entries(TRUE))]

DeleteRow(rows, id) == Select(rows, LAMBDA r : r.id # id)

(* InsertQueuedMessage replaces a row of the same id.  ListQueuedMessages sorts
   by position, then by id; ids are random, so equal positions sort either way. *)
InsertedRow(rows, row) ==
  LET others == DeleteRow(rows, row.id)
      Fits(k) == /\ \A i \in 1 .. k - 1 : others[i].pos <= row.pos
                 /\ \A i \in k .. Len(others) : others[i].pos >= row.pos
  IN {InsertAt(others, k, row) : k \in {j \in 1 .. Len(others) + 1 : Fits(j)}}
=============================================================================
