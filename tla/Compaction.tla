----------------------------- MODULE Compaction -----------------------------
(***************************************************************************)
(* What the built-in loop sends of a conversation (internal/agent/         *)
(* compaction.go): protocolSafeHistory drops tool calls without results    *)
(* and results without calls, compactHistory puts a summary in place of an *)
(* old stretch.  A message's size is one token; the threshold is limit.    *)
(***************************************************************************)
EXTENDS Naturals, Sequences, FiniteSets, SequencesExt, FiniteSetsExt

(* text: what the message says, as the pieces of text it is made of; calls: the
   calls an assistant's message makes, or the one call a result answers. *)
Message(role, text, calls) == [role |-> role, text |-> text, calls |-> calls]

System == Message("system", <<>>, <<>>)
Summary == Message("system", <<0>>, <<>>)
User(text) == Message("user", text, <<>>)
Assistant(text, calls) == Message("assistant", text, calls)
Result(call) == Message("tool", <<>>, <<call>>)

Calls(m) == Range(m.calls)
MakesCalls(m) == m.role = "assistant" /\ m.calls # <<>>

(* The first place at or after i that is not a result, Len(s) + 1 if none. *)
AfterResults(s, i) ==
  Min({j \in i .. Len(s) : s[j].role # "tool"} \cup {Len(s) + 1})

(* Calls without a result among those that follow them directly. *)
Unanswered(s, i) ==
  MakesCalls(s[i]) /\ ~ Calls(s[i]) \subseteq {s[j].calls[1] : j \in i + 1 .. AfterResults(s, i + 1) - 1}

(* What keeps a place that is not a result; a result stays with the message
   kept last, when that makes its call. *)
KeptCaller(s, i) == s[i].role # "tool" /\ ~Unanswered(s, i)

Kept(s, i) ==
  \/ KeptCaller(s, i)
  \/ /\ s[i].role = "tool"
     /\ LET callers == {j \in 1 .. i - 1 : KeptCaller(s, j)}
        IN callers # {} /\ Calls(s[i]) \subseteq Calls(s[Max(callers)])

(* protocolSafeHistory *)
SafeHistory(s) ==
  LET places == SelectSeq([i \in DOMAIN s |-> i], LAMBDA i : Kept(s, i))
  IN [i \in DOMAIN places |-> s[places[i]]]

(* How many messages compactHistory leaves in front: the system's and up to the
   first request. *)
Lead(s) ==
  LET asked == {i \in 2 .. Len(s) : s[i].role = "user"}
  IN IF asked = {} THEN 1 ELSE Min(asked)

(* A bug to catch: the cut falls between a call and its results. *)
CutEndAnywhere(s, limit) ==
  Min({e \in Lead(s) + 1 .. Len(s) - 1 : e + 1 >= limit \div 2} \cup {Len(s) - 1})

(* Where the summarised stretch ends: about half the limit, past the results that
   follow, past the calls that come next and their results, but never the end. *)
CutEnd(s, limit) ==
  LET half == Min({e \in Lead(s) .. Len(s) - 1 : e + 1 >= limit \div 2} \cup {Len(s) - 1})
      some == IF half = Lead(s) THEN half + 1 ELSE half
      past == AfterResults(s, some + 1) - 1
      round == IF past < Len(s) /\ MakesCalls(s[past + 1])
                 THEN AfterResults(s, past + 2) - 1 ELSE past
  IN IF round >= Len(s) THEN Len(s) - 1 ELSE round

(* compactHistory *)
Compacted(s, limit) ==
  IF Len(s) <= limit \/ Lead(s) >= Len(s) - 1 \/ CutEnd(s, limit) <= Lead(s) THEN s
  ELSE SubSeq(s, 1, Lead(s)) \o <<Summary>> \o SubSeq(s, CutEnd(s, limit) + 1, Len(s))
=============================================================================
