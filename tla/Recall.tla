-------------------------------- MODULE Recall --------------------------------
(***************************************************************************)
(* Which of a project's memories a turn is given: ListMemories with its    *)
(* decay (store.go), the ranker (internal/memory/rank.go), memoryPrompt    *)
(* (handlers_memories.go) and search_memories (tools.go).  What a row is   *)
(* about and its score are left open: the query may be about any of them.  *)
(***************************************************************************)
EXTENDS Naturals, FiniteSets, SequencesExt

CONSTANTS
  MaxRows,     (* ids of the rows; the first is a long one                  *)
  TopK,        (* memoryTopK                                                *)
  Budget       (* memoryBudgetChars, in lines                               *)

VARIABLES
  kept,        (* id -> row                                                 *)
  fading,      (* ids that ListMemories found faded and is about to drop    *)
  turn         (* what the turn was given, or is being                      *)

recallVars == <<kept, fading, turn>>

Ids == 1 .. MaxRows
Rows == [enabled : BOOLEAN, pinned : BOOLEAN, used : {"never", "lately", "long ago"}]
Long == 1
NoTurn == [at |-> "none", active |-> {}, pinned |-> {}, shown |-> <<>>]

TypeOK ==
  /\ DOMAIN kept \subseteq Ids /\ \A id \in DOMAIN kept : kept[id] \in Rows
  /\ fading \subseteq Ids
  /\ turn.at \in {"none", "listed", "shown"} /\ turn.active \subseteq Ids
  /\ turn.pinned \subseteq turn.active /\ ToSet(turn.shown) \subseteq turn.active

Init ==
  /\ \E ids \in SUBSET Ids : kept \in [ids -> {r \in Rows : r.used = "never"}]
  /\ fading = {} /\ turn = NoTurn
-----------------------------------------------------------------------------
(* EffectiveImportance: a pinned row never decays, another one from its last use on. *)
Faded(id) == ~kept[id].pinned /\ kept[id].used = "long ago"

FadedIds == {id \in DOMAIN kept : Faded(id)}

TimePasses(id) ==
  /\ kept[id].used = "lately"
  /\ kept' = [kept EXCEPT ![id].used = "long ago"]
  /\ UNCHANGED <<fading, turn>>

Toggle(id) ==
  /\ kept' = [kept EXCEPT ![id].enabled = ~@]
  /\ UNCHANGED <<fading, turn>>

(* ListMemories leaves the faded rows out, and deletes them by statements of their
   own.  A turn goes on with the enabled others; others list for the page, for
   remember and for the extraction. *)
ListElsewhere ==
  /\ fading' = fading \cup FadedIds
  /\ UNCHANGED <<kept, turn>>

ListForTurn ==
  /\ turn.at = "none"
  /\ fading' = fading \cup FadedIds
  /\ LET active == {id \in DOMAIN kept \ FadedIds : kept[id].enabled} IN
       turn' = [turn EXCEPT !.at = "listed", !.active = active,
                            !.pinned = {id \in active : kept[id].pinned}]
  /\ UNCHANGED kept

Without(id) == kept' = [i \in DOMAIN kept \ {id} |-> kept[i]]

Drop(id) ==
  /\ id \in fading /\ fading' = fading \ {id}
  /\ Without(id) /\ UNCHANGED turn

Forget(id) == Without(id) /\ UNCHANGED <<fading, turn>>
-----------------------------------------------------------------------------
(* Rank: pinned ones whatever they are about, the others if they are about the query;
   the pinned ones lead, in any order. *)
Leads(s, pinned) == \A i, j \in DOMAIN s : i < j /\ s[j] \in pinned => s[i] \in pinned

Ranked(relevant, pinned) == {s \in SetToSeqs(relevant \cup pinned) : Leads(s, pinned)}

FirstK(s) == SubSeq(s, 1, IF Len(s) < TopK THEN Len(s) ELSE TopK)

(* memoryPrompt ends at the first line that does not fit; a row takes one, the long one
   more than all. *)
Cost(s) == Len(s) + (IF Long \in ToSet(s) THEN Budget ELSE 0)
Fitting(s) ==
  SubSeq(s, 1, CHOOSE k \in 0 .. Len(s) :
    Cost(SubSeq(s, 1, k)) <= Budget /\ (k = Len(s) \/ Cost(SubSeq(s, 1, k + 1)) > Budget))

(* The query is embedded between the list and this; TouchMemory counts the use of the
   rows still there. *)
Rankings ==
  UNION {Ranked(relevant, turn.pinned) : relevant \in SUBSET turn.active}

Show(shown) ==
  /\ turn' = [turn EXCEPT !.at = "shown", !.shown = shown]
  /\ kept' = [id \in DOMAIN kept |->
       IF id \in ToSet(shown) THEN [kept[id] EXCEPT !.used = "lately"] ELSE kept[id]]
  /\ UNCHANGED fading

MemoryPrompt == turn.at = "listed" /\ \E s \in Rankings : Show(Fitting(FirstK(s)))
SearchMemories == turn.at = "listed" /\ \E s \in Rankings : Show(FirstK(s))

EndTurn ==
  /\ turn.at = "shown" /\ turn' = NoTurn
  /\ UNCHANGED <<kept, fading>>

Next ==
  \/ \E id \in DOMAIN kept : TimePasses(id) \/ Toggle(id) \/ Forget(id)
  \/ \E id \in fading : Drop(id)
  \/ ListElsewhere \/ ListForTurn \/ MemoryPrompt \/ SearchMemories \/ EndTurn

Spec == Init /\ [][Next]_recallVars
-----------------------------------------------------------------------------
(* Rank: "Pinned memories lead, so the limit can never squeeze one out": over lists,
   embeddings and drops that overlap, nothing is shown in place of a pinned memory. *)
PinnedLead ==
  turn.at = "shown" /\ ~(ToSet(turn.shown) \subseteq turn.pinned) =>
    turn.pinned \subseteq ToSet(turn.shown)

(* PinnedThreshold: "a memory is never dropped and never crowded out by the limit":
   every pinned memory that was enabled is in the section.  Not so of one too many for
   the limit, nor of any that follow a long one. *)
PinnedShown == turn.at = "shown" => turn.pinned \subseteq ToSet(turn.shown)

(* ListMemories: a row is only dropped when it faded, so one that is pinned, or was
   never used, is not. *)
DropsOnlyFaded == \A id \in fading \cap DOMAIN kept : ~kept[id].pinned /\ kept[id].used # "never"
=============================================================================
