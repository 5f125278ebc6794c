------------------------------- MODULE Memories -------------------------------
(***************************************************************************)
(* How a project's memories are written: the remember and forget tools,    *)
(* the extraction after a turn, the memories page, and the vectors a       *)
(* background pass fills in (tools.go, memory_capture.go,                  *)
(* handlers_memories.go).  How they are read is in Recall.                 *)
(*                                                                         *)
(* Texts 2k and 2k+1 say the same in other words.  A vector is known by    *)
(* the text and the model it was made of; vectors of two models compare    *)
(* to anything.                                                            *)
(***************************************************************************)
EXTENDS Naturals, FiniteSets

CONSTANTS
  MaxTexts,
  MaxModels,    (* embedding models; 0 is none                              *)
  CaptureLimit, (* facts kept of one reply                                  *)
  Callers,      (* tool calls, captures, requests and turns under way       *)
  MemoryCap,    (* maxMemoriesPerProject                                    *)
  MaxRows       (* bound: rows ever made                                    *)

VARIABLES
  memories,     (* id -> row                                                *)
  lastId,
  filling,      (* the background pass, which is one                        *)
  doing,        (* what each caller is in the middle of                     *)
  crossed       (* a row appeared between a caller's list and its own row   *)

memoryVars == <<memories, lastId, filling, doing, crossed>>

Texts == 1 .. MaxTexts
Models == 0 .. MaxModels
Ids == 1 .. MaxRows
Meaning(t) == t \div 2

Free == [at |-> "free"]
NoVector == [of |-> 0, by |-> 0]
Vectors == [of : 0 .. MaxTexts, by : Models]
Resting == [at |-> "resting"]

TypeOK ==
  /\ DOMAIN memories \subseteq 1 .. lastId /\ lastId \in 0 .. MaxRows
  /\ \A id \in DOMAIN memories :
       memories[id] \in [text : Texts, edited : BOOLEAN, vector : Vectors]
  /\ filling.at \in {"resting", "next", "embedding"}
  /\ \A c \in Callers : doing[c].at \in {"free", "listed", "vector"}
  /\ crossed \in BOOLEAN

Init ==
  /\ memories = <<>> /\ lastId = 0
  /\ filling = Resting
  /\ doing = [c \in Callers |-> Free]
  /\ crossed = FALSE
-----------------------------------------------------------------------------
Step(c, to) == doing' = [doing EXCEPT ![c] = to]
Keeping(ids) == [id \in ids |-> memories[id]]

(* forget, handleDeleteMemory, and ListMemories of a row that faded (Recall). *)
Delete(id) ==
  /\ memories' = Keeping(DOMAIN memories \ {id})
  /\ UNCHANGED <<lastId, filling, doing, crossed>>

(* A bug to catch: ids without AUTOINCREMENT, where the last row's id comes again
   once that row is gone. *)
IdAfterLast ==
  IF DOMAIN memories = {} THEN 1
  ELSE 1 + CHOOSE id \in DOMAIN memories : \A j \in DOMAIN memories : j <= id

NewId == lastId + 1

AddMemory(t) ==
  /\ NewId \in Ids
  /\ lastId' = IF NewId > lastId THEN NewId ELSE lastId
  /\ memories' = [id \in DOMAIN memories \cup {NewId} |->
       IF id = NewId THEN [text |-> t, edited |-> FALSE, vector |-> NoVector] ELSE memories[id]]
-----------------------------------------------------------------------------
(* remember, called by the model, or by captureMemories for each fact of a reply.
   StripPrivate: a fact that is private as a whole is "", and not one to keep. *)
Usable(reply) == {i \in DOMAIN reply : reply[i] # 0}
ParseCaptured(reply) ==
  {reply[i] : i \in {j \in Usable(reply) : Cardinality(Usable(reply) \cap (1 .. j)) <= CaptureLimit}}

Replies == {<<t, u>> : t, u \in 0 .. MaxTexts}
Facts == Texts \cup UNION {ParseCaptured(r) : r \in Replies}

(* The same words are answered with the row that has them. *)
New(t) == \A id \in DOMAIN memories : memories[id].text # t

(* The rest goes by that list, and by the embedding settings the turn began with. *)
Lists(c, t, by) ==
  /\ doing[c] = Free /\ New(t)
  /\ Step(c, [at |-> "listed", text |-> t, by |-> by, listed |-> DOMAIN memories])
  /\ UNCHANGED <<memories, lastId, filling, crossed>>

(* MemoryVectors and Cosine: a row that was listed, has a vector, and is close. *)
CloseTo(c) ==
  {id \in doing[c].listed \cap DOMAIN memories :
     LET v == memories[id].vector IN
     v # NoVector /\ (v.by # doing[c].by \/ Meaning(v.of) = Meaning(doing[c].text))}

(* A row that means the same is the answer, which may be wrong of another model's. *)
SameMeaning(c) ==
  /\ doing[c].at = "listed" /\ doing[c].by # 0 /\ CloseTo(c) # {} /\ Step(c, Free)
  /\ UNCHANGED <<memories, lastId, filling, crossed>>

IsFull(c) == Cardinality(doing[c].listed) >= MemoryCap

(* A vector that could not be had does not lose the memory. *)
Adds(c) ==
  /\ doing[c].at = "listed" /\ ~IsFull(c)
  /\ AddMemory(doing[c].text)
  /\ crossed' = (crossed \/ ~(DOMAIN memories \subseteq doing[c].listed))
  /\ \/ /\ doing[c].by # 0
        /\ \A id \in CloseTo(c) : memories[id].vector.by # doing[c].by
        /\ Step(c, [at |-> "vector", id |-> NewId, vector |-> [of |-> doing[c].text, by |-> doing[c].by]])
     \/ Step(c, Free)
  /\ UNCHANGED filling

MemoryIsFull(c) ==
  /\ doing[c].at = "listed" /\ IsFull(c) /\ Step(c, Free)
  /\ UNCHANGED <<memories, lastId, filling, crossed>>

SetVector(id, v) ==
  memories' = [i \in DOMAIN memories |->
                 IF i = id THEN [memories[i] EXCEPT !.vector = v] ELSE memories[i]]

(* The tags and the vector are written after the row; a write that fails ends it. *)
AddsVector(c) ==
  /\ doing[c].at = "vector" /\ Step(c, Free)
  /\ SetVector(doing[c].id, doing[c].vector) \/ UNCHANGED memories
  /\ UNCHANGED <<lastId, filling, crossed>>
-----------------------------------------------------------------------------
(* UpdateMemory rewrites the text, and leaves the vector. *)
Update(id, t) ==
  /\ memories' = [memories EXCEPT ![id].text = t, ![id].edited = TRUE]
  /\ UNCHANGED <<lastId, filling, doing, crossed>>
-----------------------------------------------------------------------------
(* backfillEmbeddings, once at a time over all projects. *)
BackfillBegins(by) ==
  /\ filling = Resting /\ by # 0
  /\ filling' = [at |-> "next", by |-> by]
  /\ UNCHANGED <<memories, lastId, doing, crossed>>

(* Which rows MemoriesMissingEmbeddings listed is left open: one may have gone, or got
   its vector, before it is its turn. *)
BackfillReads(id) ==
  /\ filling.at = "next"
  /\ filling' = [at |-> "embedding", by |-> filling.by, id |-> id, text |-> memories[id].text]
  /\ UNCHANGED <<memories, lastId, doing, crossed>>

BackfillStores ==
  /\ filling.at = "embedding"
  /\ SetVector(filling.id, [of |-> filling.text, by |-> filling.by])
  /\ filling' = [at |-> "next", by |-> filling.by]
  /\ UNCHANGED <<lastId, doing, crossed>>

(* Done, or a failure, which ends the whole batch. *)
BackfillEnds ==
  /\ filling # Resting /\ filling' = Resting
  /\ UNCHANGED <<memories, lastId, doing, crossed>>
-----------------------------------------------------------------------------
Next ==
  \/ \E id \in DOMAIN memories :
       Delete(id) \/ BackfillReads(id) \/ \E t \in Texts : Update(id, t)
  \/ \E by \in Models : BackfillBegins(by)
  \/ BackfillStores \/ BackfillEnds
  \/ \E c \in Callers :
       \/ \E t \in Facts, by \in Models : Lists(c, t, by)
       \/ SameMeaning(c) \/ Adds(c) \/ MemoryIsFull(c) \/ AddsVector(c)

Spec == Init /\ [][Next]_memoryVars
-----------------------------------------------------------------------------
Unedited == {id \in DOMAIN memories : ~memories[id].edited}

(* remember, handleCreateMemory: nothing is kept twice, and no more than the cap,
   unless two callers met between their lists and their rows, or a text was
   rewritten. *)
KeptOnce ==
  LET Same(i, j) == memories[i].text = memories[j].text IN
  crossed \/ /\ \A i, j \in Unedited : Same(i, j) => i = j
             /\ Cardinality(DOMAIN memories) <= MemoryCap

(* SetMemoryEmbedding by id, of a text read or made some time before: a row that was
   never rewritten has the vector of its own text or none, whichever rows came and
   went in between. *)
VectorOfText == \A id \in Unedited : memories[id].vector.of \in {0, memories[id].text}
=============================================================================
