---------------------------- MODULE MCChatTurns ----------------------------
(***************************************************************************)
(* ChatTurns for TLC: the requests each configuration enables.             *)
(***************************************************************************)
EXTENDS ChatTurns, TLC

HoldOps == {"hold", "release"}

(* After a stale writer every invariant but the types is excused, so what it
   leads to is not explored. *)
NoOverlap == "overlap" \notin mishaps

(* Two handlers in the middle of their steps are explored over two messages and no
   second turn of one, which is where they meet; one handler over three, and over any two
   of a resume, a second turn, a crash and a refused write. *)
Mishaps == bounds.resumes + bounds.reruns + bounds.crashes + bounds.faults
Explored ==
  /\ NoOverlap
  /\ \/ accepted <= 2 /\ bounds.reruns = 0 /\ bounds.faults = 0
     \/ Mishaps <= 2 /\ Cardinality({h \in Handlers : handlers[h].pc # "free"}) <= 1

(* The handlers are interchangeable: no definition compares them. *)
Symmetry == Permutations(Handlers)
=============================================================================
