------------------------------ MODULE MCHistory ------------------------------
(***************************************************************************)
(* What a session leaves, for TLC: the rows of the sessions of a project   *)
(* over forks, retries and merges.                                         *)
(***************************************************************************)
EXTENDS Sessions

(* Where the exploration stops (the invariants are checked up to there and at it): a
   second session is a copy of the first, and with it one row or piece fewer is made. *)
Explored ==
  \/ Len(listed) + Cardinality(gone) < 2
  \/ nextId <= MaxIds /\ (Len(listed) < 2 \/ Of(2) # <<>>)

(* MergeContinuedTurn, ForkChatSession, EnsureDefaultSession: the rows say what was said,
   each once, and those of before the first session are claimed for it. *)
RowsKept == TypeOK /\ TextKept /\ BeforeIsClaimed
=============================================================================
