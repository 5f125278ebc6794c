--------------------------------- MODULE Push ---------------------------------
(***************************************************************************)
(* Notifications for devices (handlers_push.go, internal/push): the key    *)
(* pair of an account, made on first use, the browsers that subscribed     *)
(* under it, and the delivery of a turn's end to each of them.             *)
(***************************************************************************)
EXTENDS Naturals, FiniteSets

CONSTANTS
  Accounts, Browsers,
  Requests,      (* pages registering, and deliveries, under way            *)
  MaxKeys,       (* bound: key pairs ever made                              *)
  MaxEndpoints   (* bound: subscriptions ever made by browsers              *)

VARIABLES
  key,           (* keyVAPIDPrivate of each account; 0 is none              *)
  keysMade,
  sub,           (* each browser's subscription; 0 is none                  *)
  under,         (* at the push service: endpoint -> key it was made under  *)
  endpointsMade,
  table,         (* push_subscriptions: endpoint -> account                 *)
  request,       (* what each request is in the middle of                   *)
  posted,        (* endpoints the server answered for, not to be forgotten  *)
  keysCrossed    (* two first uses of an account met                        *)

pushVars == <<key, keysMade, sub, under, endpointsMade, table, request, posted, keysCrossed>>

Ready == [at |-> "ready"]
None == 0
EndpointIds == 1 .. MaxEndpoints

TypeOK ==
  /\ key \in [Accounts -> 0 .. keysMade] /\ keysMade \in 0 .. MaxKeys
  /\ sub \in [Browsers -> 0 .. endpointsMade] /\ endpointsMade \in 0 .. MaxEndpoints
  /\ DOMAIN under \subseteq 1 .. endpointsMade /\ \A e \in DOMAIN under : under[e] \in 1 .. keysMade
  /\ DOMAIN table \subseteq 1 .. endpointsMade /\ \A e \in DOMAIN table : table[e] \in Accounts
  /\ \A r \in Requests : request[r].at \in {"ready", "key", "generate", "browser", "post",
                                            "forget", "sending"}
  /\ posted \subseteq EndpointIds /\ keysCrossed \in BOOLEAN

Init ==
  /\ key = [u \in Accounts |-> 0] /\ keysMade = 0
  /\ sub = [b \in Browsers |-> None] /\ under = <<>> /\ endpointsMade = 0
  /\ table = <<>> /\ posted = {} /\ keysCrossed = FALSE
  /\ request = [r \in Requests |-> Ready]
-----------------------------------------------------------------------------
Step(r, to) == request' = [request EXCEPT ![r] = to]
Without(f, e) == [x \in DOMAIN f \ {e} |-> f[x]]
With(f, e, v) == [x \in DOMAIN f \cup {e} |-> IF x = e THEN v ELSE f[x]]

(* registerPush asks for the key; notifyTurnPush and deliverPush list the devices. *)
Devices(u) == {e \in DOMAIN table : table[e] = u}

Register(r, u, b) ==
  /\ request[r] = Ready
  /\ Step(r, [at |-> "key", user |-> u, then |-> "browser", browser |-> b, key |-> 0])
  /\ UNCHANGED <<key, keysMade, sub, under, endpointsMade, table, posted, keysCrossed>>

Deliver(r, u) ==
  /\ request[r] = Ready /\ Devices(u) # {}
  /\ Step(r, [at |-> "key", user |-> u, then |-> "sending", devices |-> Devices(u), key |-> 0])
  /\ UNCHANGED <<key, keysMade, sub, under, endpointsMade, table, posted, keysCrossed>>

(* vapidKeys: the stored pair, and if there is none, one that is made and stored. *)
Stored(u) == key[u]

ReadKey(r) ==
  /\ request[r].at = "key"
  /\ LET q == request[r] IN
       Step(r, IF Stored(q.user) = 0 THEN [q EXCEPT !.at = "generate"]
               ELSE [q EXCEPT !.at = q.then, !.key = Stored(q.user)])
  /\ UNCHANGED <<key, keysMade, sub, under, endpointsMade, table, posted, keysCrossed>>

StoreKey(r) ==
  /\ request[r].at = "generate" /\ keysMade < MaxKeys
  /\ LET q == request[r]  k == keysMade + 1 IN
       /\ key' = [key EXCEPT ![q.user] = k] /\ keysMade' = k
       /\ keysCrossed' = (keysCrossed \/ key[q.user] # 0)
       /\ Step(r, [q EXCEPT !.at = q.then, !.key = k])
  /\ UNCHANGED <<sub, under, endpointsMade, table, posted>>
-----------------------------------------------------------------------------
UsesKey(e, k) == e \in DOMAIN under /\ under[e] = k

(* registerPush keeps a subscription of this key, and replaces any other. *)
Keeps(r) ==
  /\ request[r].at = "browser"
  /\ LET e == sub[request[r].browser] IN
       /\ UsesKey(e, request[r].key)
       /\ Step(r, [at |-> "post", user |-> request[r].user, endpoint |-> e])
  /\ UNCHANGED <<key, keysMade, sub, under, endpointsMade, table, posted, keysCrossed>>

Replaces(r) ==
  /\ request[r].at = "browser" /\ endpointsMade < MaxEndpoints
  /\ LET q == request[r]  old == sub[q.browser]  e == endpointsMade + 1 IN
       /\ ~UsesKey(old, q.key)
       /\ under' = With(Without(under, old), e, q.key)
       /\ sub' = [sub EXCEPT ![q.browser] = e] /\ endpointsMade' = e
       /\ Step(r, [at |-> "post", user |-> q.user, endpoint |-> e])
  /\ UNCHANGED <<key, keysMade, table, posted, keysCrossed>>

(* handlePushSubscribe: the endpoint is the caller's from then on. *)
Post(r) ==
  /\ request[r].at = "post"
  /\ LET e == request[r].endpoint IN
       /\ table' = With(table, e, request[r].user) /\ posted' = posted \cup {e}
  /\ Step(r, Ready)
  /\ UNCHANGED <<key, keysMade, sub, under, endpointsMade, keysCrossed>>

(* unregisterPush: the server forgets the caller's device, then the browser. *)
Unsubscribe(r, u, b) ==
  /\ request[r] = Ready /\ sub[b] # None
  /\ table' = IF sub[b] \in Devices(u) THEN Without(table, sub[b]) ELSE table
  /\ posted' = posted \ {sub[b]}
  /\ Step(r, [at |-> "forget", browser |-> b, endpoint |-> sub[b]])
  /\ UNCHANGED <<key, keysMade, sub, under, endpointsMade, keysCrossed>>

Forget(r) ==
  /\ request[r].at = "forget"
  /\ under' = Without(under, request[r].endpoint)
  /\ sub' = [b \in Browsers |-> IF sub[b] = request[r].endpoint THEN None ELSE sub[b]]
  /\ Step(r, Ready)
  /\ UNCHANGED <<key, keysMade, endpointsMade, table, posted, keysCrossed>>

(* The push service drops a subscription: the app was removed. *)
Dropped(e) ==
  /\ under' = Without(under, e)
  /\ UNCHANGED <<key, keysMade, sub, endpointsMade, table, request, posted, keysCrossed>>

(* Send: 404 or 410 is gone, and the row with it; any other failure is logged. *)
Gone(r, e) == e \notin DOMAIN under

Send(r, e) ==
  /\ request[r].at = "sending" /\ e \in request[r].devices
  /\ LET rest == request[r].devices \ {e} IN
       Step(r, IF rest = {} THEN Ready ELSE [request[r] EXCEPT !.devices = rest])
  /\ table' = IF Gone(r, e) /\ e \in Devices(request[r].user) THEN Without(table, e) ELSE table
  /\ UNCHANGED <<key, keysMade, sub, under, endpointsMade, posted, keysCrossed>>

(* A request that fails, the thirty seconds of a delivery, or a restart. *)
GivesUp(r) ==
  /\ request[r] # Ready /\ Step(r, Ready)
  /\ UNCHANGED <<key, keysMade, sub, under, endpointsMade, table, posted, keysCrossed>>

Next ==
  \/ \E r \in Requests :
       \/ \E u \in Accounts : Deliver(r, u) \/ \E b \in Browsers : Register(r, u, b) \/ Unsubscribe(r, u, b)
       \/ ReadKey(r) \/ StoreKey(r) \/ Keeps(r) \/ Replaces(r) \/ Post(r) \/ Forget(r) \/ GivesUp(r)
       \/ \E e \in EndpointIds : Send(r, e)
  \/ \E e \in DOMAIN under : Dropped(e)

Spec == Init /\ [][Next]_pushVars
-----------------------------------------------------------------------------
(* deliverPush: only a dead subscription is taken from the table: a device the server
   answered for, that was not unsubscribed and is alive, is in it. *)
DevicesListed == posted \cap DOMAIN under \subseteq DOMAIN table

(* vapidKeys and registerPush: a live device in the table was subscribed under the key
   its account signs with, over logins of other accounts in that browser; unless two
   first uses made two keys. *)
DevicesReachable ==
  \A e \in DOMAIN table \cap DOMAIN under : under[e] = key[table[e]] \/ keysCrossed
=============================================================================
