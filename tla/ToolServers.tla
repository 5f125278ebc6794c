----------------------------- MODULE ToolServers -----------------------------
(***************************************************************************)
(* MCP servers over stdio: the Manager that keeps a configured server      *)
(* connected (internal/mcp/mcp.go), the transport that talks to its        *)
(* process (internal/mcp/stdio.go), and the turns and tests that use it.   *)
(***************************************************************************)
EXTENDS Naturals, Sequences, FiniteSets, SequencesExt

CONSTANTS
  Callers,    (* turns and tests at once                                   *)
  Versions,   (* ways to connect to the server that settings may hold      *)
  MaxConns    (* bound: processes ever started                             *)

VARIABLES
  wanted,     (* what the settings say, Off when removed or disabled       *)
  entry,      (* Manager.clients of the server                             *)
  holder,     (* who holds Manager.mu                                      *)
  made,       (* processes started                                         *)
  proc, reader, closed, pending, toFail,   (* of each process's transport  *)
  pc, what, on, loaded, outcome, ch, sent, (* of each caller's request     *)
  replaced    (* processes whose entry another connection took             *)

transportVars == <<made, proc, reader, closed, pending, toFail>>
callerVars == <<pc, what, on, loaded, outcome, ch, sent>>
serverVars == <<wanted, entry, holder, transportVars, callerVars, replaced>>

Off == "off"
Nobody == "nobody"
Conns == 1 .. MaxConns
NoEntry == [conn |-> 0, of |-> Off, failed |-> FALSE]

TypeOK ==
  /\ wanted \in Versions \cup {Off} /\ holder \in Callers \cup {Nobody}
  /\ entry \in [conn : 0 .. made, of : Versions \cup {Off}, failed : BOOLEAN]
  /\ made \in 0 .. MaxConns /\ replaced \subseteq 1 .. made
  /\ proc \in [Conns -> {"none", "up", "down"}]
  /\ reader \in [Conns -> {"reading", "failing", "over"}]
  /\ closed \in [Conns -> BOOLEAN] /\ pending \in [Conns -> SUBSET Callers]
  /\ \A k \in Conns : Range(toFail[k]) \subseteq pending[k]
  /\ pc \in [Callers -> {"idle", "locking", "request", "waiting", "leaving"}]
  /\ what \in [Callers -> {"sync", "test", "call"} \X {"init", "list", "call"}]
  /\ on \in [Callers -> 0 .. made] /\ loaded \in [Callers -> Versions \cup {Off}]
  /\ outcome \in [Callers -> {"ok", "error"}] /\ ch \in [Callers -> {"empty", "reply", "nil"}]
  /\ sent \subseteq Callers

Init ==
  /\ wanted = Off /\ entry = NoEntry /\ holder = Nobody /\ made = 0 /\ replaced = {}
  /\ proc = [k \in Conns |-> "none"] /\ reader = [k \in Conns |-> "reading"]
  /\ closed = [k \in Conns |-> FALSE]
  /\ pending = [k \in Conns |-> {}] /\ toFail = [k \in Conns |-> <<>>]
  /\ pc = [c \in Callers |-> "idle"] /\ what = [c \in Callers |-> <<"call", "call">>]
  /\ on = [c \in Callers |-> 0] /\ loaded = [c \in Callers |-> Off]
  /\ outcome = [c \in Callers |-> "ok"] /\ ch = [c \in Callers |-> "empty"] /\ sent = {}
-----------------------------------------------------------------------------
(* dialStdio: the process starts, and with it the goroutine that reads it. *)
Dial(c, kind) ==
  /\ made < MaxConns /\ made' = made + 1
  /\ proc' = [proc EXCEPT ![made'] = "up"]
  /\ on' = [on EXCEPT ![c] = made'] /\ what' = [what EXCEPT ![c] = <<kind, "init">>]
  /\ pc' = [pc EXCEPT ![c] = "request"]

(* stdioTransport.close *)
CloseConn(k) ==
  /\ closed' = [closed EXCEPT ![k] = TRUE]
  /\ proc' = [proc EXCEPT ![k] = "down"]

(* A bug to catch: the client of a server that is off is forgotten, not closed. *)
Forget(k) == UNCHANGED <<closed, proc>>

Drop(k) == IF k = 0 THEN UNCHANGED <<closed, proc>> ELSE CloseConn(k)

Goes(c, place) == pc' = [pc EXCEPT ![c] = place]

(* A caller that is idle again has nothing left of its request. *)
Rests(c) ==
  /\ Goes(c, "idle")
  /\ what' = [what EXCEPT ![c] = <<"call", "call">>] /\ on' = [on EXCEPT ![c] = 0]
  /\ loaded' = [loaded EXCEPT ![c] = Off] /\ outcome' = [outcome EXCEPT ![c] = "ok"]

Configure ==
  /\ \E v \in Versions \cup {Off} : wanted' = v
  /\ UNCHANGED <<entry, holder, transportVars, callerVars, replaced>>

(* Sync reads the settings, then waits for the lock. *)
SyncLoads(c) ==
  /\ pc[c] = "idle"
  /\ loaded' = [loaded EXCEPT ![c] = wanted]
  /\ Goes(c, "locking")
  /\ UNCHANGED <<wanted, entry, holder, transportVars, what, on, outcome, ch, sent, replaced>>

(* The server is off: closed.  It is connected so, or failed a moment ago: left
   alone.  Otherwise the lock is kept over the connecting. *)
SyncOff(c) ==
  /\ pc[c] = "locking" /\ holder = Nobody /\ loaded[c] = Off
  /\ Drop(entry.conn) /\ entry' = NoEntry
  /\ Rests(c)
  /\ UNCHANGED <<wanted, holder, made, reader, pending, toFail, ch, sent, replaced>>

SyncKeeps(c) ==
  /\ pc[c] = "locking" /\ holder = Nobody /\ loaded[c] # Off
  /\ (entry.conn # 0 /\ entry.of = loaded[c]) \/ entry.failed
  /\ Rests(c)
  /\ UNCHANGED <<wanted, entry, holder, transportVars, ch, sent, replaced>>

SyncConnects(c) ==
  /\ pc[c] = "locking" /\ holder = Nobody /\ loaded[c] # Off
  /\ entry.conn = 0 \/ entry.of # loaded[c]
  /\ \/ Dial(c, "sync") /\ holder' = c /\ UNCHANGED <<entry, replaced, loaded, outcome>>
     \/ /\ entry' = [conn |-> 0, of |-> loaded[c], failed |-> TRUE]
        /\ replaced' = replaced \cup ({entry.conn} \ {0})
        /\ Rests(c) /\ UNCHANGED <<made, proc, holder>>
  /\ UNCHANGED <<wanted, reader, closed, pending, toFail, ch, sent>>

(* handleMCPTest: a connection of its own, without the lock. *)
TestServer(c) ==
  /\ pc[c] = "idle" /\ Dial(c, "test")
  /\ UNCHANGED <<wanted, entry, holder, reader, closed, pending, toFail, loaded, outcome, ch,
                 sent, replaced>>

(* Manager.CallTool: whatever client the entry has. *)
CallTool(c) ==
  /\ pc[c] = "idle" /\ holder = Nobody /\ entry.conn # 0
  /\ on' = [on EXCEPT ![c] = entry.conn] /\ what' = [what EXCEPT ![c] = <<"call", "call">>]
  /\ Goes(c, "request")
  /\ UNCHANGED <<wanted, entry, holder, transportVars, loaded, outcome, ch, sent, replaced>>

Shutdown ==
  /\ holder = Nobody /\ entry # NoEntry
  /\ Drop(entry.conn) /\ entry' = NoEntry
  /\ UNCHANGED <<wanted, holder, made, reader, pending, toFail, callerVars, replaced>>
-----------------------------------------------------------------------------
(* The transport's mutex, which the reader keeps while it fails what is pending. *)
MuFree(k) == reader[k] # "failing"

(* request, up to the write, which fails on a process that is gone. *)
Send(c) ==
  LET k == on[c] IN
  /\ pc[c] = "request" /\ MuFree(k)
  /\ pending' = [pending EXCEPT ![k] = @ \cup {c}]
  /\ ch' = [ch EXCEPT ![c] = "empty"]
  /\ IF proc[k] = "up"
       THEN sent' = sent \cup {c} /\ Goes(c, "waiting") /\ UNCHANGED outcome
       ELSE Goes(c, "leaving") /\ outcome' = [outcome EXCEPT ![c] = "error"] /\ UNCHANGED sent
  /\ UNCHANGED <<wanted, entry, holder, made, proc, reader, closed, toFail, what, on, loaded,
                 replaced>>

(* The server answers, and the reader hands the line to the request if it still is
   pending and its channel has room. *)
Answer(c) ==
  LET k == on[c] IN
  /\ c \in sent /\ proc[k] = "up" /\ reader[k] = "reading"
  /\ sent' = sent \ {c}
  /\ ch' = IF c \in pending[k] /\ ch[c] = "empty" THEN [ch EXCEPT ![c] = "reply"] ELSE ch
  /\ UNCHANGED <<wanted, entry, holder, transportVars, pc, what, on, loaded, outcome, replaced>>

ProcessExits(k) ==
  /\ proc[k] = "up"
  /\ proc' = [proc EXCEPT ![k] = "down"]
  /\ UNCHANGED <<wanted, entry, holder, made, reader, closed, pending, toFail, callerVars, replaced>>

(* A bug to catch: the reader returns and fails nothing. *)
NoneOf(cs) == {<<>>}

(* The pending requests, in any order, as a map is walked. *)
AllOf(cs) == SetToSeqs(cs)

(* readLoop at the end of its scan: the process is gone, or runs on and has closed its
   output or written a line of more than 8 MiB, which no scanner takes.  A nil for each
   pending request, sent while the mutex is held. *)
ReadEnds(k) ==
  /\ proc[k] # "none" /\ reader[k] = "reading"
  /\ reader' = [reader EXCEPT ![k] = "failing"]
  /\ \E order \in AllOf(pending[k]) : toFail' = [toFail EXCEPT ![k] = order]
  /\ UNCHANGED <<wanted, entry, holder, made, proc, closed, pending, callerVars, replaced>>

FailNext(k) ==
  /\ reader[k] = "failing"
  /\ IF toFail[k] = <<>>
       THEN /\ reader' = [reader EXCEPT ![k] = "over"]
            /\ pending' = [pending EXCEPT ![k] = {}]
            /\ UNCHANGED <<toFail, ch>>
       ELSE /\ ch[Head(toFail[k])] = "empty"
            /\ ch' = [ch EXCEPT ![Head(toFail[k])] = "nil"]
            /\ toFail' = [toFail EXCEPT ![k] = Tail(@)]
            /\ UNCHANGED <<reader, pending>>
  /\ UNCHANGED <<wanted, entry, holder, made, proc, closed, pc, what, on, loaded, outcome, sent,
                 replaced>>

(* The select of request: its channel; or the end of its context or the close,
   with a reply there or not. *)
Receive(c) ==
  /\ pc[c] = "waiting" /\ ch[c] # "empty"
  /\ ch' = [ch EXCEPT ![c] = "empty"]
  /\ \E o \in IF ch[c] = "reply" THEN {"ok", "error"} ELSE {"error"} :
       outcome' = [outcome EXCEPT ![c] = o]
  /\ Goes(c, "leaving")
  /\ UNCHANGED <<wanted, entry, holder, transportVars, what, on, loaded, sent, replaced>>

GivesUp(c) ==
  /\ pc[c] = "waiting"
  /\ outcome' = [outcome EXCEPT ![c] = "error"] /\ Goes(c, "leaving")
  /\ UNCHANGED <<wanted, entry, holder, transportVars, what, on, loaded, ch, sent, replaced>>

(* The deferred delete, and what the caller does with the outcome: Connect and
   ListTools go on, CallTool is over, and Sync keeps the client or closes it. *)
Leave(c) ==
  LET k == on[c]
      good == outcome[c] = "ok"
  IN
  /\ pc[c] = "leaving" /\ MuFree(k)
  /\ pending' = [pending EXCEPT ![k] = @ \ {c}]
  /\ sent' = sent \ {c} /\ ch' = [ch EXCEPT ![c] = "empty"]
  /\ \/ /\ what[c][2] = "init" /\ good
        /\ what' = [what EXCEPT ![c] = <<what[c][1], "list">>] /\ Goes(c, "request")
        /\ UNCHANGED <<entry, holder, closed, proc, replaced, on, loaded, outcome>>
     \/ /\ what[c][1] = "call" /\ Rests(c)
        /\ UNCHANGED <<entry, holder, closed, proc, replaced>>
     \/ /\ what[c][1] = "test" /\ (what[c][2] = "list" \/ ~good)
        /\ CloseConn(k) /\ Rests(c)
        /\ UNCHANGED <<entry, holder, replaced>>
     \/ /\ what[c][1] = "sync" /\ (what[c][2] = "list" \/ ~good)
        /\ entry' = IF good THEN [conn |-> k, of |-> loaded[c], failed |-> FALSE]
                    ELSE [conn |-> 0, of |-> loaded[c], failed |-> TRUE]
        /\ IF good THEN UNCHANGED <<closed, proc>> ELSE CloseConn(k)
        /\ replaced' = replaced \cup ({entry.conn} \ {0})
        /\ holder' = Nobody /\ Rests(c)
  /\ UNCHANGED <<wanted, made, reader, toFail>>

Next ==
  \/ Configure \/ Shutdown
  \/ \E c \in Callers :
       \/ SyncLoads(c) \/ SyncOff(c) \/ SyncKeeps(c) \/ SyncConnects(c) \/ TestServer(c)
       \/ CallTool(c) \/ Send(c) \/ Answer(c) \/ Receive(c) \/ GivesUp(c) \/ Leave(c)
  \/ \E k \in Conns : ProcessExits(k) \/ ReadEnds(k) \/ FailNext(k)

Spec == Init /\ [][Next]_serverVars
-----------------------------------------------------------------------------
(* Sync, Shutdown and the test: a process that runs has a client that somebody
   will close, unless new settings put another connection in its place. *)
ServersOwned ==
  \A k \in Conns : proc[k] = "up" =>
    \/ entry.conn = k \/ k \in replaced
    \/ \E c \in Callers : on[c] = k /\ pc[c] # "idle" /\ what[c][1] # "call"

(* readLoop: a request that was pending when the reader ended does not wait for it: it
   has its reply or its nil.  One that is still pending came later. *)
PendingFailed ==
  \A c \in Callers :
    pc[c] = "waiting" /\ reader[on[c]] = "over" /\ c \notin pending[on[c]] => ch[c] # "empty"

(* What failing all that is pending is for: no request waits for a reader that is over.
   Not so of one that is sent later to a server that still runs: it waits for its
   deadline, and so does every call of that client, which Sync keeps. *)
NoneUnread ==
  \A c \in Callers : pc[c] = "waiting" /\ reader[on[c]] = "over" => ch[c] # "empty"

(* "Stream ended: fail all pending requests" (stdio.go): the reader never waits for
   room in the channel of a request that has left it full, and itself waits for
   the mutex the reader holds. *)
NeverJammed ==
  \A c \in Callers :
    ~ /\ pc[c] = "leaving" /\ ch[c] # "empty"
      /\ reader[on[c]] = "failing" /\ toFail[on[c]] # <<>> /\ Head(toFail[on[c]]) = c

(* A client that is replaced is closed. *)
NoneReplaced == \A k \in replaced : proc[k] = "down"
=============================================================================
