------------------------------ MODULE Background ------------------------------
(***************************************************************************)
(* The detached commands of run_command_background: BackgroundManager      *)
(* (internal/agent/background.go), the callbacks streamChatTurn wires to   *)
(* it and the endpoints that cancel and stop.  Two sessions share it.      *)
(***************************************************************************)
EXTENDS Naturals, FiniteSets

CONSTANTS Jobs, Sessions

VARIABLES
  phase,      (* of the job's goroutine                                    *)
  of,         (* the session that started the job                          *)
  up,         (* the commands whose process runs                           *)
  piped,      (* those with a child in a session of its own that holds the
                 output open: cmd.Wait waits for it, no kill reaches it    *)
  listed,     (* m.jobs                                                    *)
  timedOut, cancelled,
  row,        (* what the job's row in the transcript says                 *)
  told,       (* what PollBackground handed out of it                      *)
  doomed,     (* lists of processes whose SIGKILL is set                   *)
  cancelling, (* the job Cancel is about to mark, holding m.mu             *)
  turn,       (* the session's run                                         *)
  alive       (* the server                                                *)

jobVars == <<phase, of, up, piped, listed, timedOut, cancelled>>
bgVars == <<jobVars, row, told, doomed, cancelling, turn, alive>>

Nobody == "nobody"

TypeOK ==
  /\ phase \in [Jobs -> {"new", "started", "waiting", "killed", "ended", "closed", "over"}]
  /\ of \in [Jobs -> Sessions \cup {Nobody}]
  /\ up \subseteq Jobs /\ piped \subseteq Jobs /\ listed \subseteq Jobs
  /\ timedOut \subseteq Jobs /\ cancelled \subseteq Jobs
  /\ row \in [Jobs -> {"none", "exit", "timed out", "cancelled"}]
  /\ told \in [Jobs -> {"nothing", "blank", "text"}]
  /\ doomed \subseteq Jobs
  /\ cancelling \in Jobs \cup {Nobody}
  /\ turn \in [Sessions -> {"on", "cancelled", "off"}]
  /\ alive \in BOOLEAN

Init ==
  /\ phase = [j \in Jobs |-> "new"] /\ of = [j \in Jobs |-> Nobody]
  /\ up = {} /\ piped = {} /\ listed = {} /\ timedOut = {} /\ cancelled = {}
  /\ row = [j \in Jobs |-> "none"] /\ told = [j \in Jobs |-> "nothing"]
  /\ doomed = {} /\ cancelling = Nobody
  /\ turn = [s \in Sessions |-> "on"] /\ alive = TRUE
-----------------------------------------------------------------------------
Done(j) == phase[j] \in {"closed", "over"}
RunningOf(s) == {j \in listed : of[j] = s /\ ~Done(j)}
Free == alive /\ cancelling = Nobody

(* Start, by a tool that may already run when the turn is cancelled: the process is
   there before anything knows of it ... *)
Start(j, s) ==
  /\ alive /\ phase[j] = "new" /\ turn[s] # "off"
  /\ of' = [of EXCEPT ![j] = s]
  /\ phase' = [phase EXCEPT ![j] = "started"]
  /\ up' = up \cup {j}
  /\ UNCHANGED <<piped, listed, timedOut, cancelled, row, told, doomed, cancelling, turn, alive>>

(* ... and then, under the lock, it is in m.jobs. *)
Lists(j) ==
  /\ Free /\ phase[j] = "started"
  /\ phase' = [phase EXCEPT ![j] = "waiting"]
  /\ listed' = listed \cup {j}
  /\ UNCHANGED <<of, up, piped, timedOut, cancelled, row, told, doomed, cancelling, turn, alive>>

(* The command ends. *)
Exits(j) ==
  /\ j \in up
  /\ up' = up \ {j}
  /\ UNCHANGED <<phase, of, piped, listed, timedOut, cancelled, row, told, doomed, cancelling, turn, alive>>

(* It starts a child in a session of its own; the child ends, or closes its output. *)
Detaches(j) ==
  /\ j \in up \ piped
  /\ piped' = piped \cup {j}
  /\ UNCHANGED <<phase, of, up, listed, timedOut, cancelled, row, told, doomed, cancelling, turn, alive>>

LetsGo(j) ==
  /\ j \in piped
  /\ piped' = piped \ {j}
  /\ UNCHANGED <<phase, of, up, listed, timedOut, cancelled, row, told, doomed, cancelling, turn, alive>>

(* The select of the goroutine: the exit, or the deadline even with an exit. *)
WaitReturns(j) ==
  /\ alive /\ phase[j] \in {"waiting", "killed"} /\ j \notin up \cup piped
  /\ phase' = [phase EXCEPT ![j] = "ended"]
  /\ UNCHANGED <<of, up, piped, listed, timedOut, cancelled, row, told, doomed, cancelling, turn, alive>>

TimesOut(j) ==
  /\ alive /\ phase[j] = "waiting"
  /\ phase' = [phase EXCEPT ![j] = "killed"]
  /\ timedOut' = timedOut \cup {j}
  /\ up' = up \ {j}
  /\ UNCHANGED <<of, piped, listed, cancelled, row, told, doomed, cancelling, turn, alive>>

CloseDone(j) ==
  /\ alive /\ phase[j] = "ended"
  /\ phase' = [phase EXCEPT ![j] = "closed"]
  /\ UNCHANGED <<of, up, piped, listed, timedOut, cancelled, row, told, doomed, cancelling, turn, alive>>

(* BackgroundResultText *)
Status(j) ==
  IF j \in cancelled THEN "cancelled" ELSE IF j \in timedOut THEN "timed out" ELSE "exit"

(* BackgroundNotify: the row, or a write that fails. *)
Notify(j) ==
  /\ alive /\ phase[j] = "closed"
  /\ phase' = [phase EXCEPT ![j] = "over"]
  /\ row' \in {row, [row EXCEPT ![j] = Status(j)]}
  /\ UNCHANGED <<of, up, piped, listed, timedOut, cancelled, told, doomed, cancelling, turn, alive>>
-----------------------------------------------------------------------------
(* A bug to catch: only SIGTERM is sent. *)
TermOnly(js) == \E deaf \in SUBSET js : up' = up \ (js \ deaf) /\ UNCHANGED doomed

(* killProcessGroups: some do not heed SIGTERM; SIGKILL comes five seconds later. *)
KillGroups(js) ==
  \E deaf \in SUBSET js : up' = up \ (js \ deaf) /\ doomed' = doomed \cup js

KillSurvivors ==
  /\ alive /\ doomed # {}
  /\ up' = up \ doomed /\ doomed' = {}
  /\ UNCHANGED <<phase, of, piped, listed, timedOut, cancelled, row, told, cancelling, turn, alive>>

(* Cancel finds the job running, then marks it and kills it; done may be closed
   and the row written in between. *)
CancelFinds(s, j) ==
  /\ Free /\ j \in RunningOf(s)
  /\ cancelling' = j
  /\ UNCHANGED <<jobVars, row, told, doomed, turn, alive>>

CancelMarks ==
  /\ alive /\ cancelling # Nobody
  /\ cancelled' = cancelled \cup {cancelling}
  /\ KillGroups({cancelling})
  /\ cancelling' = Nobody
  /\ UNCHANGED <<phase, of, piped, listed, timedOut, row, told, turn, alive>>

(* handleChatStop: the run's context, then CancelSession. *)
StopRun(s) ==
  /\ alive /\ turn[s] = "on"
  /\ turn' = [turn EXCEPT ![s] = "cancelled"]
  /\ UNCHANGED <<jobVars, row, told, doomed, cancelling, alive>>

CancelSession(s) ==
  /\ Free /\ turn[s] # "on"
  /\ KillGroups(RunningOf(s))
  /\ UNCHANGED <<phase, of, piped, listed, timedOut, cancelled, row, told, cancelling, turn, alive>>

TurnEnds(s) ==
  /\ alive /\ turn[s] # "off"
  /\ turn' = [turn EXCEPT ![s] = "off"]
  /\ UNCHANGED <<jobVars, row, told, doomed, cancelling, alive>>

(* A bug to catch: a job is handed out while it runs. *)
AllOf(s) == {j \in listed : of[j] = s}

FinishedOf(s) == {j \in listed : of[j] = s /\ Done(j)}

(* PollBackground: Completed takes the finished jobs out of the map. *)
Poll(s) ==
  /\ Free /\ turn[s] # "off" /\ FinishedOf(s) # {}
  /\ told' = [j \in Jobs |-> IF j \notin FinishedOf(s) THEN told[j]
                             ELSE IF row[j] = "none" THEN "blank" ELSE "text"]
  /\ listed' = listed \ FinishedOf(s)
  /\ UNCHANGED <<phase, of, up, piped, timedOut, cancelled, row, doomed, cancelling, turn, alive>>

(* Shutdown, KillAll; main returns before any SIGKILL that is set. *)
Shutdown ==
  /\ Free
  /\ \E deaf \in SUBSET Jobs : up' = up \ ({j \in listed : ~Done(j)} \ deaf)
  /\ doomed' = {} /\ alive' = FALSE
  /\ UNCHANGED <<phase, of, piped, listed, timedOut, cancelled, row, told, cancelling, turn>>

Next ==
  \/ \E j \in Jobs : \/ Lists(j) \/ Exits(j) \/ Detaches(j) \/ LetsGo(j)
                     \/ WaitReturns(j) \/ TimesOut(j) \/ CloseDone(j) \/ Notify(j)
  \/ \E s \in Sessions : \/ \E j \in Jobs : Start(j, s) \/ CancelFinds(s, j)
                         \/ StopRun(s) \/ CancelSession(s) \/ TurnEnds(s) \/ Poll(s)
  \/ CancelMarks \/ KillSurvivors \/ Shutdown

(* Start, the goroutine, the timer of the SIGKILL and the lock's holder go on; nothing
   is assumed of the commands, the user, or the agent. *)
Fairness ==
  /\ \A j \in Jobs : WF_bgVars(Lists(j)) /\ WF_bgVars(WaitReturns(j)) /\ WF_bgVars(CloseDone(j)) /\ WF_bgVars(Notify(j))
  /\ WF_bgVars(KillSurvivors) /\ WF_bgVars(CancelMarks)

Spec == Init /\ [][Next]_bgVars /\ Fairness
-----------------------------------------------------------------------------
(* BackgroundManager: while its server lives a command that runs is listed, not done,
   and so found by a cancel, a stop and the shutdown, or Start is about to list it; and
   what a poll handed out has ended. *)
UpIsListed ==
  alive => up \subseteq {j \in Jobs : phase[j] = "started" \/ (j \in listed /\ ~Done(j))}

(* killProcessGroups: a command that was cancelled, or ran when its session was
   stopped, ends, however deaf it is, unless the server exits first or a child of it,
   out of reach of every kill, holds its output for ever. *)
DoomedEnds ==
  \A j \in Jobs :
    <>(j \in cancelled \cup doomed) => <>(Done(j) \/ ~alive) \/ <>[](j \in piped)

(* What the comments of CancelSession and KillAll take for granted: a stop and the
   shutdown see every command that runs.  One between Start and Lists is not seen. *)
StopSeesAll == alive => \A j \in up : j \in RunningOf(of[j])

(* "its result was already persisted by the completion callback, so this just
   appends it to the model's view" (agent.go). *)
ToldHasText == \A j \in Jobs : told[j] # "blank"

(* KillAll: "so detached commands can't outlive the process" (background.go).  Not so
   of one that is deaf to SIGTERM: the server exits before the SIGKILL. *)
NoneOutlives == ~alive => up = {}
=============================================================================
