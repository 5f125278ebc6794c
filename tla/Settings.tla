------------------------------- MODULE Settings -------------------------------
(***************************************************************************)
(* The settings of a user that decide where a request of the model goes:   *)
(* the saved providers, the one effective endpoint and key they are        *)
(* mirrored into (handlePutSettings of internal/server/handlers_auth.go,   *)
(* llmConfig of server.go).  A PUT is a list of writes that each commit by *)
(* themselves; two tabs may be at it at once, and any write may fail.      *)
(***************************************************************************)
EXTENDS Naturals, Sequences

CONSTANTS
  Tabs, Bases,         (* tabs with the settings open; base URLs            *)
  MaxIds, MaxTyped,    (* bounds: providers ever added, keys ever typed     *)
  MaxPuts              (* bound: requests                                   *)

VARIABLES
  saved,     (* llm_providers: the records, without names                   *)
  own,       (* the single-provider keys of the user                        *)
  limit,     (* the soft turn time-out, for the settings of one write each *)
  ids, typed, puts,
  doing,     (* what each tab, or its request, is at                        *)
  clean      (* the last list saved was saved whole, and by one request     *)

listVars == <<saved, own, clean>>
settingsVars == <<saved, own, limit, ids, typed, puts, doing, clean>>

None == "none"
Fields == {"base", "key", "model"}   (* the default model is written like the model *)
Unset == 99                (* a key of the settings that is not there       *)
NoList == [at |-> "idle"]

Keys == 0 .. MaxTyped      (* 0: no key                                     *)
Record == [id : 1 .. MaxIds, base : Bases, key : Keys]
Value(f) == IF f = "key" THEN Keys ELSE Bases \cup {None}
Busy(t) == doing[t].at \notin {"idle", "open"}

TypeOK ==
  /\ \A i \in DOMAIN saved : saved[i] \in Record
  /\ \A i, j \in DOMAIN saved : saved[i].id = saved[j].id => i = j
  /\ \A f \in Fields : own[f] \in Value(f)
  /\ limit \in {0, 1, Unset}
  /\ ids \in 0 .. MaxIds /\ typed \in Keys /\ puts \in 0 .. MaxPuts
  /\ \A t \in Tabs : doing[t].at \in
       {"idle", "open", "merge", "list", "mirror", "first", "rest", "write"}
  /\ clean \in BOOLEAN

Init ==
  /\ saved = <<>> /\ own = [f \in Fields |-> IF f = "key" THEN 0 ELSE None]
  /\ limit = Unset
  /\ ids = 0 /\ typed = 0 /\ puts = 0
  /\ doing = [t \in Tabs |-> NoList]
  /\ clean = TRUE
-----------------------------------------------------------------------------
(* A tab loads the settings; the keys are never shown, only that there is one. *)
Load(t) ==
  /\ ~Busy(t)
  /\ doing' = [doing EXCEPT ![t] =
       [at |-> "open", form |-> [i \in DOMAIN saved |-> [saved[i] EXCEPT !.key = 0]]]]
  /\ UNCHANGED <<listVars, limit, ids, typed, puts>>

(* Its PUT: a list of providers, of which one at most has a new key (saveLLM,
   deleteProvider), the others as they were loaded; or a time-out. *)
Request(list) ==
  [at |-> "merge", inc |-> list, merged |-> <<>>, legacy |-> own["key"], todo |-> {},
   then |-> "", minutes |-> Unset, beside |-> {t \in Tabs : Busy(t)}]

(* A request knows the tabs whose requests ran beside it. *)
Beside(t) ==
  [u \in Tabs |-> IF Busy(u) THEN [doing[u] EXCEPT !.beside = @ \cup {t}] ELSE doing[u]]

Put(t, request) ==
  /\ puts < MaxPuts /\ puts' = puts + 1
  /\ doing' = [Beside(t) EXCEPT ![t] = request]
  /\ UNCHANGED <<listVars, limit>>

Typed(key) == key \in {0, typed + 1} \cap Keys /\ typed' = IF key = 0 THEN typed ELSE key

SaveAdded(t, base, key) ==
  /\ doing[t].at = "open" /\ ids < MaxIds /\ ids' = ids + 1 /\ Typed(key)
  /\ Put(t, Request(Append(doing[t].form, [id |-> ids + 1, base |-> base, key |-> key])))

SaveEdited(t, i, base, key) ==
  /\ doing[t].at = "open" /\ i \in DOMAIN doing[t].form /\ Typed(key) /\ UNCHANGED ids
  /\ Put(t, Request([doing[t].form EXCEPT ![i].base = base, ![i].key = key]))

Without(list, i) == [j \in 1 .. Len(list) - 1 |-> list[IF j < i THEN j ELSE j + 1]]

SaveDeleted(t, i) ==
  /\ doing[t].at = "open" /\ i \in DOMAIN doing[t].form /\ UNCHANGED <<ids, typed>>
  /\ Put(t, Request(Without(doing[t].form, i)))

SaveRest(t, minutes) ==
  /\ doing[t].at = "open" /\ UNCHANGED <<ids, typed>>
  /\ Put(t, [Request(<<>>) EXCEPT !.at = "rest", !.minutes = minutes])
-----------------------------------------------------------------------------
(* findLLMProvider: the record of the id that is stored now. *)
Found(id) == {i \in DOMAIN saved : saved[i].id = id}

(* An empty key keeps the stored one, or takes the effective one for a new record. *)
KeyFor(t, inc) ==
  IF inc.key # 0 THEN inc.key
  ELSE IF Found(inc.id) = {} THEN doing[t].legacy
  ELSE saved[CHOOSE i \in Found(inc.id) : TRUE].key
Taken(t, inc) == [inc EXCEPT !.key = KeyFor(t, inc)]

Merge(t) ==
  /\ doing[t].at = "merge"
  /\ LET inc == doing[t].inc
         merged == doing[t].merged
     IN doing' = [doing EXCEPT ![t] =
          IF inc = <<>> THEN [doing[t] EXCEPT !.at = "list"]
          ELSE [doing[t] EXCEPT !.inc = Tail(inc), !.merged = Append(merged, Taken(t, Head(inc)))]]
  /\ UNCHANGED <<listVars, limit, ids, typed, puts>>

StoreList(t) ==
  /\ doing[t].at = "list" /\ saved' = doing[t].merged /\ clean' = FALSE
  /\ doing' = [doing EXCEPT ![t].at = "mirror"]
  /\ UNCHANGED <<own, limit, ids, typed, puts>>

(* The effective key follows the provider whose endpoint is the effective one: the
   first with a key. *)
Matches(list, base) == {i \in DOMAIN list : list[i].key # 0 /\ list[i].base = base}
FirstOf(places) == CHOOSE i \in places : \A j \in places : i <= j
KeyOf(list, base) == list[FirstOf(Matches(list, base))].key
Refreshed(list, base) ==
  IF Matches(list, base) = {} THEN {} ELSE {[field |-> "key", value |-> KeyOf(list, base)]}

ToWrite(t, todo, then) ==
  [doing EXCEPT ![t].at = IF todo = {} THEN then ELSE "write", ![t].todo = todo, ![t].then = then]

Mirror(t) ==
  /\ doing[t].at = "mirror"
  /\ doing' = ToWrite(t, Refreshed(doing[t].merged, own["base"]), "first")
  /\ UNCHANGED <<listVars, limit, ids, typed, puts>>

(* No endpoint yet: the first provider becomes the effective one, key by key in the
   order of a Go map. *)
MirrorFirst(t) ==
  /\ doing[t].at = "first"
  /\ doing' = ToWrite(t,
       IF doing[t].merged = <<>> \/ own["base"] # None THEN {}
       ELSE LET r == doing[t].merged[1] IN
         {[field |-> f, value |-> IF f = "key" THEN r.key ELSE r.base] : f \in Fields}, "rest")
  /\ UNCHANGED <<listVars, limit, ids, typed, puts>>

Write(t) ==
  /\ doing[t].at = "write"
  /\ \E w \in doing[t].todo :
       /\ own' = [own EXCEPT ![w.field] = w.value]
       /\ doing' = ToWrite(t, doing[t].todo \ {w}, doing[t].then)
  /\ UNCHANGED <<saved, clean, limit, ids, typed, puts>>

(* The other settings, one write each; a time-out of 0 deletes its key.  Then the
   answer is ok. *)
Stored(minutes) == IF minutes = 0 THEN Unset ELSE minutes

StoreRest(t) ==
  /\ doing[t].at = "rest" /\ doing' = [doing EXCEPT ![t] = NoList]
  /\ IF doing[t].minutes = Unset THEN clean' = (doing[t].beside = {}) /\ UNCHANGED limit
     ELSE limit' = Stored(doing[t].minutes) /\ UNCHANGED clean
  /\ UNCHANGED <<saved, own, ids, typed, puts>>

(* A write that fails ends the request; what it wrote before stays. *)
Fails(t) ==
  /\ doing[t].at \in {"list", "write", "rest"}
  /\ doing' = [doing EXCEPT ![t] = NoList]
  /\ UNCHANGED <<listVars, limit, ids, typed, puts>>

Next ==
  \/ \E t \in Tabs :
       \/ Load(t) \/ Merge(t) \/ StoreList(t) \/ Mirror(t) \/ MirrorFirst(t)
       \/ Write(t) \/ StoreRest(t) \/ Fails(t)
       \/ \E b \in Bases, k \in Keys : SaveAdded(t, b, k)
       \/ \E b \in Bases, k \in Keys, i \in 1 .. MaxIds : SaveEdited(t, i, b, k)
       \/ \E i \in 1 .. MaxIds : SaveDeleted(t, i)
       \/ \E minutes \in {0, 1} : SaveRest(t, minutes)

Spec == Init /\ [][Next]_settingsVars
-----------------------------------------------------------------------------
(* "Keep the effective single-provider key in step with the provider it mirrors":
   after a list that was saved whole and by one request, whatever failed or raced
   before it, there is an endpoint and its key is that of its provider. *)
KeyFollows ==
  clean =>
    /\ saved # <<>> => own["base"] # None
    /\ Matches(saved, own["base"]) # {} =>
         \/ own["key"] = KeyOf(saved, own["base"])
         \/ own["key"] = 0 /\ saved[1].key = 0

(* "0 disables that side entirely" (turnTimeouts): a time-out that is saved as 0 is
   stored.  Not so: its key is deleted, and 5 minutes is read. *)
ZeroIsStored == \A t \in Tabs : [][
  (doing[t].at = "rest" /\ doing[t].minutes = 0 /\ limit' # limit) => limit' = 0]_settingsVars
=============================================================================
