------------------------------ MODULE ToolsProofs ------------------------------
(***************************************************************************)
(* What a turn works with: proofs about the tools that change a project    *)
(* and run its commands, the previews and terminals, the MCP servers, the  *)
(* endpoint of the settings, the extensions and the skills, and the git    *)
(* repository of a project, for any calls, files, projects, servers'       *)
(* callers, tabs, extensions, sessions and requests.  The theorems are     *)
(* about the specification the run checks, of which each part takes its    *)
(* own steps.                                                              *)
(***************************************************************************)
EXTENDS MCTools, FiniteSetTheorems, SequenceTheorems, WellFoundedInduction, TLAPS

-----------------------------------------------------------------------------
Marked == 1 .. MaxMarks
Made == 1 .. next - 1
Asking == [at : {"asked", "allowed", "running", "stopping", "killed"}, id : Marked]
Editing == [at : {"edit"}, path : Paths, read : SUBSET Marked, mark : Marked]
CallStates ==
  [at : {"free", "ended"}] \cup Editing \cup [at : {"todos"}, list : Marked] \cup Asking

ToolTypes ==
  /\ calling \in [Calls -> CallStates]
  /\ DOMAIN files \subseteq Paths /\ files \in [DOMAIN files -> SUBSET Marked]
  /\ asking \in {"ask", "auto"} /\ next \in 1 .. MaxMarks + 1
  /\ waiting \subseteq Made /\ DOMAIN answers \subseteq Made
  /\ waiting \cap DOMAIN answers = {}
  /\ alive \in [Calls -> SUBSET Tools!Processes]
  /\ kept \subseteq [path : Paths, mark : Marked]

(* While no two lists met, one call at most is to tell the client, of the stored list. *)
ListIsStored ==
  "todos" \notin crossed =>
    \A c \in Calls : calling[c].at = "todos" =>
      /\ calling[c].list = todos
      /\ \A d \in Calls \ {c} : calling[d].at # "todos"

(* An answer that allows is remembered as one. *)
AnswersGranted == \A id \in DOMAIN answers : ~answers[id] \/ id \in granted

ToolsIInv ==
  /\ ToolTypes /\ ListIsStored /\ AnswersGranted
  /\ Tools!EditsKept /\ Tools!TodosShown /\ Tools!AllowedFirst /\ Tools!GroupGone

LEMMA ToolsInit == Tools!Init => ToolsIInv
BY ToolsAssumption
   DEF Tools!Init, ToolsIInv, ToolTypes, CallStates, Made, Marked, Tools!Free, ListIsStored,
       AnswersGranted, Tools!EditsKept, Tools!TodosShown, Tools!AllowedFirst, Tools!GroupGone

LEMMA ToolsStep == ToolsIInv /\ [Tools!Next]_toolVars => ToolsIInv'
<1> SUFFICES ASSUME ToolsIInv, [Tools!Next]_toolVars
             PROVE  ToolsIInv'
  OBVIOUS
<1> USE ToolsAssumption
     DEF ToolsIInv, ToolTypes, CallStates, Asking, Editing, Made, Marked, ListIsStored,
         AnswersGranted, Tools!EditsKept, Tools!TodosShown, Tools!AllowedFirst, Tools!GroupGone,
         Tools!dataVars, Tools!permVars, Tools!Free, Tools!Begin, Tools!Step, Tools!Mark,
         Tools!Marks, Tools!With, Tools!KeptAt, Tools!Processes, Tools!Group, Tools!HoldOutput
<1>1. ASSUME NEW c \in Calls, NEW p \in Paths, Tools!EditReads(c, p)
      PROVE  ToolsIInv'
  BY <1>1 DEF Tools!EditReads
<1>2. ASSUME NEW c \in Calls, Tools!EditWrites(c)
      PROVE  ToolsIInv'
  BY <1>2 DEF Tools!EditWrites, Tools!Edited
<1>3. ASSUME NEW c \in Calls, NEW p \in Paths, Tools!WriteFile(c, p)
      PROVE  ToolsIInv'
  BY <1>3 DEF Tools!WriteFile
<1>4. ASSUME NEW c \in Calls, NEW p \in Paths, Tools!DeleteFile(c, p)
      PROVE  ToolsIInv'
  BY <1>4 DEF Tools!DeleteFile, Tools!Without
<1>5. ASSUME NEW c \in Calls, NEW p \in Paths, NEW q \in Paths, Tools!MoveFile(c, p, q)
      PROVE  ToolsIInv'
  BY <1>5 DEF Tools!MoveFile, Tools!Without
<1>6. ASSUME NEW c \in Calls, Tools!SetTodos(c)
      PROVE  ToolsIInv'
  BY <1>6 DEF Tools!SetTodos
<1>7. ASSUME NEW c \in Calls, Tools!TellTodos(c)
      PROVE  ToolsIInv'
  BY <1>7 DEF Tools!TellTodos
<1>8. ASSUME NEW c \in Calls, Tools!AskPermission(c)
      PROVE  ToolsIInv'
  BY <1>8 DEF Tools!AskPermission
<1>9. ASSUME NEW c \in Calls, Tools!PermissionReturns(c)
      PROVE  ToolsIInv'
  BY <1>9 DEF Tools!PermissionReturns
<1>10. ASSUME NEW c \in Calls, Tools!PermissionGivesUp(c)
       PROVE  ToolsIInv'
  BY <1>10 DEF Tools!PermissionGivesUp
<1>11. ASSUME NEW c \in Calls, Tools!StartCommand(c)
       PROVE  ToolsIInv'
  BY <1>11 DEF Tools!StartCommand
<1>12. ASSUME NEW c \in Calls, Tools!CallServer(c)
       PROVE  ToolsIInv'
  BY <1>12 DEF Tools!CallServer
<1>13. ASSUME NEW c \in Calls, Tools!CommandEnds(c)
       PROVE  ToolsIInv'
  BY <1>13 DEF Tools!CommandEnds, Tools!WaitReturns
<1>14. ASSUME NEW c \in Calls, Tools!StopCommand(c)
       PROVE  ToolsIInv'
  BY <1>14 DEF Tools!StopCommand
<1>15. ASSUME NEW c \in Calls, Tools!KillCommand(c)
       PROVE  ToolsIInv'
  BY <1>15 DEF Tools!KillCommand
<1>16. ASSUME NEW c \in Calls, Tools!Return(c)
       PROVE  ToolsIInv'
  BY <1>16 DEF Tools!Return
<1>17. ASSUME NEW c \in Calls, NEW p \in Tools!Processes, Tools!ProcessEnds(c, p)
       PROVE  ToolsIInv'
  BY <1>17 DEF Tools!ProcessEnds
<1>18. ASSUME NEW id \in waiting, NEW allow \in BOOLEAN, Tools!Answer(id, allow)
       PROVE  ToolsIInv'
  BY <1>18 DEF Tools!Answer, Tools!Answerable
<1>19. CASE Tools!SetMode
  BY <1>19 DEF Tools!SetMode
<1>20. CASE UNCHANGED toolVars
  BY <1>20 DEF toolVars
<1> QED
  BY <1>1, <1>2, <1>3, <1>4, <1>5, <1>6, <1>7, <1>8, <1>9, <1>10, <1>11, <1>12, <1>13, <1>14, <1>15, <1>16, <1>17, <1>18, <1>19, <1>20
     DEF Tools!Next, Tools!FileCalls

(* editFile, deleteFile, moveFile: a replacement that was answered ok is in the file
   unless two calls met in it; setTodos: the list on the screen is the stored one;
   turnPerm.Request: what runs was allowed by an answer to its own request; runCommand:
   after a stop neither the shell nor a child that writes to the output is left. *)
THEOREM WorkspaceIsHeld == PartsSpec => []WorkspaceHolds
<1>1. PartsInit => ToolsIInv
  BY ToolsInit DEF PartsInit
<1>2. ToolsIInv /\ [PartsNext]_vars => ToolsIInv'
  <2> SUFFICES ASSUME ToolsIInv, [PartsNext]_vars
               PROVE  ToolsIInv'
    OBVIOUS
  <2>1. CASE InTools(Tools!Next)
    BY <2>1, ToolsStep DEF InTools
  <2>2. CASE UNCHANGED toolVars
    BY <2>2, ToolsStep
  <2> QED
    BY <2>1, <2>2, Zenon
       DEF PartsNext, InServers, InPreviews, InShells, InEndpoint, InExtensions, InSkills,
           InGit, vars, agentVars
<1>3. ToolsIInv => WorkspaceHolds
  <2> SUFFICES ASSUME ToolsIInv
               PROVE  WorkspaceHolds
    OBVIOUS
  <2>1. Tools!TypeOK
    BY ToolsAssumption
       DEF ToolsIInv, ToolTypes, CallStates, Asking, Editing, Made, Marked, Tools!TypeOK,
           Tools!Marks
  <2> QED
    BY <2>1 DEF ToolsIInv, WorkspaceHolds
<1> QED
  BY <1>1, <1>2, <1>3, PTL DEF PartsSpec
-----------------------------------------------------------------------------
(* A socket is registered while its shell may run; one that registered late is none of
   a project that is there. *)
ShellsIInv ==
  /\ Shells!TypeOK /\ Shells!ShellsHeld
  /\ \A s \in shell : socket[s] = "open" => s \in registered \cup late

LEMMA ShellsInit == Shells!Init => ShellsIInv
BY DEF Shells!Init, ShellsIInv, Shells!TypeOK, Shells!ShellsHeld

LEMMA ShellsStep == ShellsIInv /\ [Shells!Next]_shellVars => ShellsIInv'
<1> SUFFICES ASSUME ShellsIInv, [Shells!Next]_shellVars
             PROVE  ShellsIInv'
  OBVIOUS
<1> USE DEF ShellsIInv, Shells!TypeOK, Shells!ShellsHeld, Shells!Moves
<1>1. ASSUME NEW s \in Sockets, Shells!Open(s)
      PROVE  ShellsIInv'
  BY <1>1 DEF Shells!Open
<1>2. ASSUME NEW s \in Sockets, Shells!Start(s)
      PROVE  ShellsIInv'
  BY <1>2 DEF Shells!Start
<1>3. ASSUME NEW s \in Sockets, Shells!Registers(s)
      PROVE  ShellsIInv'
  BY <1>3 DEF Shells!Registers
<1>4. ASSUME NEW s \in Sockets, Shells!Exits(s)
      PROVE  ShellsIInv'
  BY <1>4 DEF Shells!Exits
<1>5. ASSUME NEW s \in Sockets, Shells!Ends(s)
      PROVE  ShellsIInv'
  BY <1>5 DEF Shells!Ends
<1>6. ASSUME NEW s \in Sockets, Shells!Unregisters(s)
      PROVE  ShellsIInv'
  BY <1>6 DEF Shells!Unregisters
<1>7. CASE Shells!KillProject
  BY <1>7 DEF Shells!KillProject
<1>8. CASE Shells!DeleteProject
  BY <1>8 DEF Shells!DeleteProject
<1>9. CASE UNCHANGED shellVars
  BY <1>9 DEF shellVars
<1> QED
  BY <1>1, <1>2, <1>3, <1>4, <1>5, <1>6, <1>7, <1>8, <1>9
     DEF Shells!Next
-----------------------------------------------------------------------------
SomePreview == 1 .. made
AtStart == starting.at # "none"

PreviewTypes ==
  /\ made \in 0 .. MaxPreviews
  /\ items \in [Projects -> 0 .. made]
  /\ project \in [Previews!Previews -> Projects \cup {Previews!Nobody}]
  /\ mode \in [Previews!Previews -> {"static", "node"}]
  /\ running \in [Previews!Previews -> BOOLEAN]
  /\ process \in [Previews!Previews -> {"none", "up", "exited", "reaped"}]
  /\ older \subseteq SomePreview \X SomePreview
  /\ starting \in [at : {"none", "install", "wait", "open"}, of : 0 .. made]
  /\ kills \subseteq SomePreview /\ orphans \subseteq SomePreview /\ idle \subseteq Projects

(* A preview is in the map under its own project; one that is still to be made has
   neither server nor run. *)
PreviewShape ==
  /\ \A p \in Projects : items[p] # 0 => project[items[p]] = p
  /\ \A v \in Previews!Previews : mode[v] = "static" => process[v] = "none"
  /\ \A v \in Previews!Previews :
       v > made => mode[v] = "static" /\ process[v] = "none" /\ ~running[v]

(* The start under way is of a dev server, and its project has no other preview. *)
StartShape ==
  AtStart =>
    /\ starting.of # 0 /\ mode[starting.of] = "node" /\ project[starting.of] \in Projects
    /\ items[project[starting.of]] \in {0, starting.of}

(* A server that is up is of a preview that runs, or of the start under way, or its
   preview left the map. *)
UpIsRunning ==
  \A v \in Previews!Previews : process[v] = "up" =>
    \/ v \in kills \cup orphans
    \/ v \in Previews!Listed /\ (running[v] \/ (AtStart /\ v = starting.of))

(* Of any previews one was used least recently. *)
LeastUsed ==
  \A S \in SUBSET SomePreview : S # {} => \E v \in S : \A u \in S : u = v \/ <<v, u>> \in older

PreviewHeld == PreviewTypes /\ PreviewShape /\ StartShape /\ UpIsRunning

(* A start under way has its place below the cap. *)
RoomForStart ==
  /\ Cardinality(Previews!Running(items, running)) <= Cap
  /\ AtStart => Cardinality(Previews!Running(items, running)) < Cap

PreviewsIInv == PreviewHeld /\ LeastUsed /\ RoomForStart

LEMMA PreviewsInit == Previews!Init => PreviewsIInv
<1> SUFFICES ASSUME Previews!Init
             PROVE  PreviewsIInv
  OBVIOUS
<1>1. PreviewHeld
  BY ToolsAssumption
     DEF Previews!Init, PreviewHeld, PreviewTypes, PreviewShape, StartShape, UpIsRunning,
         SomePreview, AtStart, Previews!NoStart, Previews!Previews
<1>2. LeastUsed
  <2>1. SomePreview = {}
    BY DEF Previews!Init, SomePreview
  <2> QED
    BY <2>1 DEF LeastUsed
<1>3. Previews!Running(items, running) = {}
  BY DEF Previews!Init, Previews!Running
<1>4. RoomForStart
  <2>1. starting.at = "none"
    BY DEF Previews!Init, Previews!NoStart
  <2>2. Cardinality(Previews!Running(items, running)) = 0
    BY <1>3, FS_EmptySet, Zenon
  <2> QED
    BY <2>1, <2>2, ToolsAssumption DEF RoomForStart, AtStart
<1> QED
  BY <1>1, <1>2, <1>4 DEF PreviewsIInv

(* evictLocked: what goes is of another project, and was in the map. *)
LEMMA VictimsListed ==
  ASSUME NEW its, NEW run, NEW except,
         NEW v \in Previews!Victims(its, run, except)
  PROVE  \E q \in Projects \ {except} : its[q] # 0 /\ run[its[q]] /\ v = its[q]
BY DEF Previews!Victims, Previews!Running

LEMMA PreviewHeldStep == PreviewHeld /\ [Previews!Next]_previewVars => PreviewHeld'
<1> SUFFICES ASSUME PreviewHeld, [Previews!Next]_previewVars
             PROVE  PreviewHeld'
  OBVIOUS
<1> USE ToolsAssumption
     DEF PreviewHeld, PreviewTypes, PreviewShape, StartShape, UpIsRunning, SomePreview, AtStart,
         Previews!NoStart, Previews!Previews, Previews!Nobody, Previews!Listed
<1>1. ASSUME NEW p \in Projects, Previews!StartAgain(p)
      PROVE  PreviewHeld'
  BY <1>1 DEF Previews!StartAgain, Previews!Touched
<1>2. ASSUME NEW p \in Projects, Previews!StartStatic(p)
      PROVE  PreviewHeld'
  <2> DEFINE v == made + 1
             run == [running EXCEPT ![v] = TRUE]
             its == [items EXCEPT ![p] = v]
             gone == Previews!Victims(its, run, p)
  <2> HIDE DEF its, run
  <2>1. \A u \in gone : \E q \in Projects \ {p} : its[q] # 0 /\ run[its[q]] /\ u = its[q]
    BY VictimsListed
  <2> HIDE DEF gone
  <2>2. \A u \in gone : \E q \in Projects \ {p} : items[q] # 0 /\ running[items[q]] /\ u = items[q]
    BY <2>1 DEF its, run
  <2>3. /\ starting.at = "none" /\ made < MaxPreviews /\ made' = v
        /\ project' = [project EXCEPT ![v] = p]
        /\ items[p] # 0 => ~running[items[p]]
        /\ running' = [running EXCEPT ![v] = TRUE]
        /\ items' = [q \in Projects |->
                       IF q = p THEN IF v \in gone THEN 0 ELSE v
                       ELSE IF items[q] \in gone THEN 0 ELSE items[q]]
        /\ kills' = kills \cup gone
        /\ older' = Previews!Touched(v)
        /\ UNCHANGED <<mode, process, starting, idle, orphans>>
    BY <1>2 DEF Previews!StartStatic, Previews!Without, its, run, gone
  <2>4. PreviewTypes'
    <3>1. made' \in 0 .. MaxPreviews /\ 1 .. made \subseteq 1 .. made' /\ v \in 1 .. made'
      BY <2>3
    <3>2. older' \subseteq (1 .. made') \X (1 .. made')
      BY <2>3, <3>1 DEF Previews!Touched
    <3>3. items' \in [Projects -> 0 .. made']
      BY <2>3, <3>1
    <3>4. gone \subseteq 1 .. made
      BY <2>2
    <3>5. kills' \subseteq 1 .. made'
      BY <2>3, <3>1, <3>4
    <3> QED
      BY <2>3, <3>1, <3>2, <3>3, <3>5
  <2>5. PreviewShape' /\ StartShape'
    BY <2>2, <2>3
  <2>6. UpIsRunning'
    BY <2>2, <2>3
  <2> QED
    BY <2>4, <2>5, <2>6
<1>3. ASSUME NEW p \in Projects, Previews!StartNode(p)
      PROVE  PreviewHeld'
  <2> DEFINE v == made + 1
             gone == Previews!Victims(items, running, p)
  <2>1. \A u \in gone : \E q \in Projects \ {p} : items[q] # 0 /\ running[items[q]] /\ u = items[q]
    BY VictimsListed
  <2>2. /\ starting.at = "none" /\ made < MaxPreviews /\ made' = v
        /\ project' = [project EXCEPT ![v] = p] /\ mode' = [mode EXCEPT ![v] = "node"]
        /\ items[p] # 0 => ~running[items[p]]
        /\ items' = [q \in Projects |->
                       IF q = p THEN v ELSE IF items[q] \in gone THEN 0 ELSE items[q]]
        /\ kills' = kills \cup gone
        /\ older' = Previews!Touched(v) /\ starting' = [at |-> "install", of |-> v]
        /\ UNCHANGED <<running, process, idle, orphans>>
    BY <1>3 DEF Previews!StartNode, Previews!Without
  <2> HIDE DEF gone
  <2>3. PreviewTypes'
    <3>1. made' \in 0 .. MaxPreviews /\ 1 .. made \subseteq 1 .. made' /\ v \in 1 .. made'
      BY <2>2
    <3>2. older' \subseteq (1 .. made') \X (1 .. made')
      BY <2>2, <3>1 DEF Previews!Touched
    <3>3. items' \in [Projects -> 0 .. made']
      BY <2>2, <3>1
    <3>4. gone \subseteq 1 .. made
      BY <2>1
    <3>5. kills' \subseteq 1 .. made'
      BY <2>2, <3>1, <3>4
    <3> QED
      BY <2>2, <3>1, <3>2, <3>3, <3>5
  <2>4. PreviewShape' /\ StartShape'
    BY <2>1, <2>2
  <2>5. UpIsRunning'
    BY <2>1, <2>2
  <2> QED
    BY <2>3, <2>4, <2>5
<1>4. ASSUME NEW p \in Projects, Previews!Stop(p)
      PROVE  PreviewHeld'
  BY <1>4 DEF Previews!Stop, Previews!StopPreview, Previews!KillServer
<1>5. ASSUME NEW p \in Projects, Previews!SweepStops(p)
      PROVE  PreviewHeld'
  <2>1. CASE items[p] = 0
    <3>1. /\ UNCHANGED <<items, project, mode, running, process, made, older, starting, kills,
                         orphans>>
          /\ idle' = idle \ {p}
      BY <1>5, <2>1 DEF Previews!SweepStops
    <3> QED
      BY <3>1
  <2>2. CASE items[p] # 0
    <3>1. /\ UNCHANGED <<project, mode, made, older, starting, kills, orphans>>
          /\ idle' = idle \ {p}
          /\ items' = [items EXCEPT ![p] = 0] /\ running' = [running EXCEPT ![items[p]] = FALSE]
          /\ process' = IF process[items[p]] = "up"
                          THEN [process EXCEPT ![items[p]] = "exited"] ELSE process
      BY <1>5, <2>2 DEF Previews!SweepStops, Previews!StopPreview, Previews!KillServer
    <3> QED
      BY <2>2, <3>1
  <2> QED
    BY <2>1, <2>2
<1>6. ASSUME NEW p \in Projects, Previews!Use(p)
      PROVE  PreviewHeld'
  BY <1>6 DEF Previews!Use, Previews!Touched
<1>7. CASE Previews!StartProcess
  BY <1>7 DEF Previews!StartProcess
<1>8. CASE Previews!StartFails
  BY <1>8 DEF Previews!StartFails, Previews!KillServer
<1>9. CASE Previews!PortOpens
  <2>1. /\ starting'.of = starting.of /\ starting.at # "none" /\ starting'.at = "open"
        /\ starting' \in [at : {"none", "install", "wait", "open"}, of : 0 .. made]
    BY <1>9 DEF Previews!PortOpens
  <2> QED
    BY <1>9, <2>1 DEF Previews!PortOpens
<1>10. CASE Previews!StartReturns
  BY <1>10 DEF Previews!StartReturns
<1>11. ASSUME NEW v \in Previews!Previews, Previews!ServerExits(v)
       PROVE  PreviewHeld'
  BY <1>11 DEF Previews!ServerExits
<1>12. ASSUME NEW v \in Previews!Previews, Previews!WaitReturns(v)
       PROVE  PreviewHeld'
  BY <1>12 DEF Previews!WaitReturns
<1>13. ASSUME NEW v \in Previews!Previews, Previews!KillVictim(v)
       PROVE  PreviewHeld'
  BY <1>13 DEF Previews!KillVictim, Previews!KillServer
<1>14. CASE Previews!StopAll
  BY <1>14 DEF Previews!StopAll
<1>15. CASE Previews!SweepFinds
  <2>1. idle' \subseteq Projects
    BY <1>15 DEF Previews!SweepFinds, Previews!Running
  <2> QED
    BY <1>15, <2>1 DEF Previews!SweepFinds
<1>16. CASE UNCHANGED previewVars
  BY <1>16 DEF previewVars
<1> QED
  BY <1>1, <1>2, <1>3, <1>4, <1>5, <1>6, <1>7, <1>8, <1>9, <1>10, <1>11, <1>12, <1>13, <1>14,
     <1>15, <1>16
     DEF Previews!Next

LEMMA SameCardinalityOfPreviews == \A S : Previews!Cardinality(S) = Cardinality(S)
BY DEF Previews!Cardinality, Cardinality

LEMMA LeastUsedStep ==
  PreviewHeld /\ LeastUsed /\ [Previews!Next]_previewVars => LeastUsed'
<1> SUFFICES ASSUME PreviewHeld, LeastUsed, [Previews!Next]_previewVars
             PROVE  LeastUsed'
  OBVIOUS
<1>a. made \in Nat
  BY ToolsAssumption DEF PreviewHeld, PreviewTypes
<1>1. ASSUME UNCHANGED <<made, older>>
      PROVE  LeastUsed'
  BY <1>1 DEF LeastUsed, SomePreview
<1>2. ASSUME NEW v \in 1 .. made + 1, made' \in {made, made + 1}, v \in 1 .. made',
             made' = made + 1 => v = made', older' = Previews!Touched(v)
      PROVE  LeastUsed'
  <2> SUFFICES ASSUME NEW S \in SUBSET (1 .. made'), S # {}
               PROVE  \E w \in S : \A u \in S : u = w \/ <<w, u>> \in older'
    BY DEF LeastUsed, SomePreview
  <2>1. CASE S \ {v} = {}
    BY <2>1
  <2>2. CASE S \ {v} # {}
    <3>1. S \ {v} \in SUBSET SomePreview
      BY <1>a, <1>2 DEF SomePreview
    <3>2. PICK w \in S \ {v} : \A u \in S \ {v} : u = w \/ <<w, u>> \in older
      BY <2>2, <3>1 DEF LeastUsed
    <3>3. w \in (1 .. made) \ {v}
      BY <3>1, <3>2 DEF SomePreview
    <3> QED
      BY <1>2, <3>2, <3>3 DEF Previews!Touched
  <2> QED
    BY <2>1, <2>2
<1>3. ASSUME NEW p \in Projects, Previews!StartAgain(p) \/ Previews!Use(p)
      PROVE  LeastUsed'
  <2>1. items[p] \in 1 .. made /\ older' = Previews!Touched(items[p]) /\ made' = made
    BY <1>3 DEF Previews!StartAgain, Previews!Use, PreviewHeld, PreviewTypes
  <2> QED
    BY <1>2, <1>a, <2>1
<1>4. ASSUME NEW p \in Projects, Previews!StartStatic(p) \/ Previews!StartNode(p)
      PROVE  LeastUsed'
  <2>1. older' = Previews!Touched(made + 1) /\ made' = made + 1
    BY <1>4 DEF Previews!StartStatic, Previews!StartNode
  <2> QED
    BY <1>2, <1>a, <2>1
<1>5. ASSUME NEW p \in Projects, Previews!Stop(p) \/ Previews!SweepStops(p)
      PROVE  UNCHANGED <<made, older>>
  BY <1>5 DEF Previews!Stop, Previews!SweepStops, Previews!StopPreview
<1>6. ASSUME NEW v \in Previews!Previews,
             Previews!ServerExits(v) \/ Previews!WaitReturns(v) \/ Previews!KillVictim(v)
      PROVE  UNCHANGED <<made, older>>
  BY <1>6 DEF Previews!ServerExits, Previews!WaitReturns, Previews!KillVictim
<1>7. ASSUME \/ Previews!StartProcess \/ Previews!StartFails \/ Previews!PortOpens
             \/ Previews!StartReturns \/ Previews!StopAll \/ Previews!SweepFinds
      PROVE  UNCHANGED <<made, older>>
  BY <1>7 DEF Previews!StartProcess, Previews!StartFails, Previews!PortOpens,
              Previews!StartReturns, Previews!StopAll, Previews!SweepFinds
<1>8. UNCHANGED previewVars => UNCHANGED <<made, older>>
  BY DEF previewVars
<1> QED
  BY <1>1, <1>3, <1>4, <1>5, <1>6, <1>7, <1>8 DEF Previews!Next

RunningNow == Previews!Running(items, running)

LEMMA RunningFinite ==
  ASSUME NEW its, NEW run
  PROVE  /\ IsFiniteSet(Previews!Running(its, run))
         /\ Cardinality(Previews!Running(its, run)) \in Nat
<1>1. Previews!Running(its, run) \subseteq Projects
  BY DEF Previews!Running
<1>2. IsFiniteSet(Previews!Running(its, run))
  BY <1>1, ToolsAssumption, FS_Subset
<1> QED
  BY <1>2, FS_CardinalityType

(* evictLocked: at the cap, one that runs goes, if there is another. *)
LEMMA VictimsMakeRoom ==
  ASSUME LeastUsed, NEW its \in [Projects -> Nat], NEW run, NEW except,
         \A q \in Projects \ {except} : its[q] \in 0 .. made,
         Previews!Cardinality(Previews!Running(its, run)) >= Cap,
         Previews!Running(its, run) \ {except} # {}
  PROVE  LET left == Previews!Without(its, Previews!Victims(its, run, except))
         IN \E q \in Previews!Running(its, run) :
              Previews!Running(left, run) \subseteq Previews!Running(its, run) \ {q}
<1> DEFINE others == {its[q] : q \in Previews!Running(its, run) \ {except}}
           gone == Previews!Victims(its, run, except)
           left == Previews!Without(its, gone)
<1>1. others \in SUBSET SomePreview /\ others # {}
  BY DEF SomePreview, Previews!Running
<1>2. PICK v \in others : \A u \in others : u = v \/ <<v, u>> \in older
  BY <1>1 DEF LeastUsed
<1>3. ~(Previews!Cardinality(Previews!Running(its, run)) < Cap)
  BY RunningFinite, SameCardinalityOfPreviews, ToolsAssumption
<1>4. v \in gone
  BY <1>2, <1>3 DEF Previews!Victims
<1>5. PICK q \in Previews!Running(its, run) \ {except} : v = its[q]
  BY <1>2
<1> HIDE DEF gone
<1>6. left = [r \in Projects |-> IF its[r] \in gone THEN 0 ELSE its[r]]
  BY DEF Previews!Without
<1>7. Previews!Running(left, run) \subseteq Previews!Running(its, run) \ {q}
  BY <1>4, <1>5, <1>6 DEF Previews!Running
<1> QED
  BY <1>5, <1>7 DEF gone

LEMMA OneMore ==
  ASSUME NEW S, IsFiniteSet(S), NEW x, NEW T \in SUBSET (S \cup {x})
  PROVE  IsFiniteSet(T) /\ Cardinality(T) \in Nat /\ Cardinality(T) <= Cardinality(S) + 1
<1>1. IsFiniteSet(S \cup {x})
  BY FS_AddElement
<1>2. Cardinality(S \cup {x}) = Cardinality(S) \/ Cardinality(S \cup {x}) = Cardinality(S) + 1
  BY FS_AddElement
<1>3. IsFiniteSet(T) /\ Cardinality(T) <= Cardinality(S \cup {x})
  BY <1>1, FS_Subset
<1>4. Cardinality(S) \in Nat /\ Cardinality(T) \in Nat
  BY <1>3, FS_CardinalityType
<1> QED
  BY <1>2, <1>3, <1>4

LEMMA RoomStep ==
  PreviewHeld /\ LeastUsed /\ RoomForStart /\ [Previews!Next]_previewVars => RoomForStart'
<1> SUFFICES ASSUME PreviewHeld, LeastUsed, RoomForStart, [Previews!Next]_previewVars
             PROVE  RoomForStart'
  OBVIOUS
<1> USE ToolsAssumption
<1>a. /\ items \in [Projects -> 0 .. made] /\ running \in [Previews!Previews -> BOOLEAN]
      /\ made \in Nat /\ 1 .. made \subseteq Previews!Previews
  BY DEF PreviewHeld, PreviewTypes, Previews!Previews
<1>b. Cardinality(RunningNow) \in Nat /\ Cardinality(RunningNow') \in Nat
        /\ IsFiniteSet(RunningNow)
  BY RunningFinite DEF RunningNow
<1>c. Cardinality(RunningNow) <= Cap /\ (AtStart => Cardinality(RunningNow) < Cap)
  BY DEF RoomForStart, RunningNow
(* What runs does not grow, and no start begins. *)
<1>1. ASSUME RunningNow' \subseteq RunningNow, AtStart' => AtStart
      PROVE  RoomForStart'
  <2>1. Cardinality(RunningNow') <= Cardinality(RunningNow)
    BY <1>1, <1>b, FS_Subset
  <2> QED
    BY <1>1, <1>b, <1>c, <2>1 DEF RoomForStart, RunningNow
<1>2. ASSUME NEW p \in Projects, Previews!StartAgain(p) \/ Previews!Use(p)
      PROVE  RoomForStart'
  BY <1>1, <1>2
     DEF Previews!StartAgain, Previews!Use, RunningNow, Previews!Running, AtStart
<1>3. ASSUME NEW p \in Projects, items[p] # 0, Previews!StopPreview(p)
      PROVE  RoomForStart'
  BY <1>1, <1>3, <1>a DEF Previews!StopPreview, RunningNow, Previews!Running, AtStart
<1>4. ASSUME NEW p \in Projects, Previews!Stop(p) \/ Previews!SweepStops(p)
      PROVE  RoomForStart'
  <2>1. CASE items[p] # 0
    BY <1>3, <1>4, <2>1 DEF Previews!Stop, Previews!SweepStops
  <2>2. CASE items[p] = 0
    BY <1>1, <1>4, <2>2
       DEF Previews!Stop, Previews!StopPreview, Previews!SweepStops, RunningNow,
           Previews!Running, AtStart
  <2> QED
    BY <2>1, <2>2
<1>5. ASSUME NEW v \in Previews!Previews,
             Previews!ServerExits(v) \/ Previews!WaitReturns(v) \/ Previews!KillVictim(v)
      PROVE  RoomForStart'
  BY <1>1, <1>5, <1>a
     DEF Previews!ServerExits, Previews!WaitReturns, Previews!KillVictim, RunningNow,
         Previews!Running, AtStart
<1>6. ASSUME Previews!StartProcess \/ Previews!PortOpens \/ Previews!SweepFinds
      PROVE  RoomForStart'
  BY <1>1, <1>6
     DEF Previews!StartProcess, Previews!PortOpens, Previews!SweepFinds, RunningNow,
         Previews!Running, AtStart
<1>7. CASE Previews!StartFails
  BY <1>1, <1>7, <1>a
     DEF Previews!StartFails, Previews!NoStart, RunningNow, Previews!Running, AtStart
<1>8. CASE Previews!StopAll
  BY <1>1, <1>8, <1>a DEF Previews!StopAll, RunningNow, Previews!Running, AtStart
<1>9. CASE Previews!StartReturns
  <2> DEFINE v == starting.of
  <2>1. v \in 1 .. made /\ project[v] \in Projects /\ AtStart
    BY <1>9 DEF Previews!StartReturns, PreviewHeld, PreviewTypes, StartShape, AtStart
  <2>2. \A q \in Projects : items[q] = v => q = project[v]
    BY <2>1 DEF PreviewHeld, PreviewShape
  <2>3. RunningNow' \subseteq RunningNow \cup {project[v]}
    BY <1>9, <1>a, <2>1, <2>2 DEF Previews!StartReturns, RunningNow, Previews!Running
  <2>4. Cardinality(RunningNow') <= Cardinality(RunningNow) + 1
    BY <1>b, <2>3, OneMore
  <2>6. ~AtStart'
    BY <1>9 DEF Previews!StartReturns, Previews!NoStart, AtStart
  <2> QED
    BY <1>b, <1>c, <2>1, <2>4, <2>6 DEF RoomForStart, RunningNow
<1>10. ASSUME NEW p \in Projects, Previews!StartStatic(p)
       PROVE  RoomForStart'
  <2> DEFINE v == made + 1
             run == [running EXCEPT ![v] = TRUE]
             its == [items EXCEPT ![p] = v]
             gone == Previews!Victims(its, run, p)
             all == Previews!Running(its, run)
  <2>1. /\ running' = run /\ items' = Previews!Without(its, gone) /\ starting' = starting
        /\ starting.at = "none" /\ v \in Previews!Previews
    BY <1>10, <1>a DEF Previews!StartStatic, Previews!NoStart, Previews!Previews
  <2>2. its \in [Projects -> Nat] /\ \A q \in Projects \ {p} : its[q] \in 0 .. made
    BY <1>a
  <2>3. all \subseteq RunningNow \cup {p}
    BY <1>a, <2>1 DEF RunningNow, Previews!Running
  <2>4. /\ IsFiniteSet(all) /\ Cardinality(all) \in Nat
        /\ Cardinality(all) <= Cardinality(RunningNow) + 1
    BY <1>b, <2>3, OneMore
  <2> HIDE DEF its, run, all
  <2>5. RunningNow' = Previews!Running(Previews!Without(its, gone), run)
    BY <2>1 DEF RunningNow
  <2>6. RunningNow' \subseteq all
    BY <2>1 DEF RunningNow, Previews!Running, Previews!Without, all
  <2>7. ~AtStart'
    BY <2>1 DEF AtStart
  <2>8. Cardinality(RunningNow') <= Cap
    <3>1. CASE Cardinality(all) < Cap
      BY <3>1, <1>b, <2>4, <2>6, FS_Subset
    <3>2. CASE all \subseteq {p}
      <4>1. Cardinality({p}) = 1 /\ IsFiniteSet({p}) /\ RunningNow' \subseteq {p}
        BY <3>2, <2>6, FS_Singleton
      <4>2. Cardinality(RunningNow') <= 1
        BY <4>1, FS_Subset
      <4> QED
        BY <1>b, <4>2
    <3>3. CASE Cardinality(all) >= Cap /\ all \ {p} # {}
      <4>1. Previews!Cardinality(all) >= Cap
        BY <3>3, SameCardinalityOfPreviews
      <4>2. PICK q \in all : RunningNow' \subseteq all \ {q}
        BY <2>2, <2>5, <3>3, <4>1, VictimsMakeRoom DEF all
      <4>3. Cardinality(all \ {q}) = Cardinality(all) - 1 /\ IsFiniteSet(all \ {q})
        BY <2>4, FS_RemoveElement
      <4>4. Cardinality(RunningNow') <= Cardinality(all \ {q})
        BY <4>2, <4>3, FS_Subset
      <4> QED
        BY <1>b, <1>c, <2>4, <4>3, <4>4
    <3> QED
      BY <2>4, <3>1, <3>2, <3>3
  <2> QED
    BY <2>7, <2>8 DEF RoomForStart, RunningNow
<1>11. ASSUME NEW p \in Projects, Previews!StartNode(p)
       PROVE  RoomForStart'
  <2> DEFINE v == made + 1
             gone == Previews!Victims(items, running, p)
             left == Previews!Running(Previews!Without(items, gone), running)
  <2>1. /\ running' = running /\ items' = [Previews!Without(items, gone) EXCEPT ![p] = v]
        /\ items[p] # 0 => ~running[items[p]] /\ made < MaxPreviews
    BY <1>11 DEF Previews!StartNode
  <2>2. p \notin RunningNow
    BY <2>1 DEF RunningNow, Previews!Running
  <2>3. ~running[v]
    BY <1>11, <1>a DEF Previews!StartNode, PreviewHeld, PreviewShape, Previews!Previews
  <2>4. RunningNow' \subseteq left
    BY <2>1, <2>3 DEF RunningNow, Previews!Running, Previews!Without
  <2>5. left \subseteq RunningNow
    BY DEF RunningNow, Previews!Running, Previews!Without
  <2>6. Cardinality(RunningNow') < Cap
    <3>1. CASE Cardinality(RunningNow) < Cap
      BY <3>1, <1>b, <2>4, <2>5, FS_Subset
    <3>2. CASE Cardinality(RunningNow) >= Cap
      <4>1. Previews!Cardinality(RunningNow) >= Cap /\ RunningNow \ {p} # {}
        BY <3>2, <2>2, <1>b, SameCardinalityOfPreviews, FS_EmptySet
      <4>2. PICK q \in RunningNow : left \subseteq RunningNow \ {q}
        BY <1>a, <4>1, VictimsMakeRoom DEF RunningNow
      <4>3. /\ Cardinality(RunningNow \ {q}) = Cardinality(RunningNow) - 1
            /\ IsFiniteSet(RunningNow \ {q})
        BY <1>b, FS_RemoveElement
      <4>4. RunningNow' \subseteq RunningNow \ {q}
        BY <2>4, <4>2
      <4>5. Cardinality(RunningNow') <= Cardinality(RunningNow \ {q})
        BY <4>3, <4>4, FS_Subset
      <4> QED
        BY <1>b, <1>c, <4>3, <4>5
    <3> QED
      BY <1>b, <3>1, <3>2
  <2> QED
    BY <1>b, <2>6 DEF RoomForStart, RunningNow
<1>12. CASE UNCHANGED previewVars
  BY <1>1, <1>12 DEF previewVars, RunningNow, Previews!Running, AtStart
<1> QED
  BY <1>2, <1>4, <1>5, <1>6, <1>7, <1>8, <1>9, <1>10, <1>11, <1>12 DEF Previews!Next

LEMMA PreviewsStep == PreviewsIInv /\ [Previews!Next]_previewVars => PreviewsIInv'
BY PreviewHeldStep, LeastUsedStep, RoomStep DEF PreviewsIInv

(* evictLocked: no more previews run at once than the cap; kill: a dev server that runs
   can be stopped; ServeWS: a shell that runs has a socket to end it. *)
THEOREM PreviewsAreHeld == PartsSpec => []PreviewsHeld
<1> DEFINE Inv == PreviewsIInv /\ ShellsIInv
<1>1. PartsInit => Inv
  BY PreviewsInit, ShellsInit DEF PartsInit
<1>2. Inv /\ [PartsNext]_vars => Inv'
  <2> SUFFICES ASSUME PreviewsIInv, ShellsIInv, [PartsNext]_vars
               PROVE  Inv'
    OBVIOUS
  <2>1. CASE InPreviews(Previews!Next)
    <3>1. PreviewsIInv'
      BY <2>1, PreviewsStep DEF InPreviews
    <3>2. UNCHANGED shellVars
      BY <2>1, Zenon DEF InPreviews
    <3> QED
      BY <3>1, <3>2, ShellsStep
  <2>2. CASE InShells(Shells!Next)
    <3>1. ShellsIInv'
      BY <2>2, ShellsStep DEF InShells
    <3>2. UNCHANGED previewVars
      BY <2>2, Zenon DEF InShells
    <3> QED
      BY <3>1, <3>2, PreviewsStep
  <2>3. CASE UNCHANGED <<previewVars, shellVars>>
    BY <2>3, PreviewsStep, ShellsStep
  <2> QED
    BY <2>1, <2>2, <2>3, Zenon
       DEF PartsNext, InServers, InEndpoint, InTools, InExtensions, InSkills, InGit, vars,
           connectedVars
<1>3. Inv => PreviewsHeld
  <2> SUFFICES ASSUME PreviewsIInv, ShellsIInv
               PROVE  PreviewsHeld
    OBVIOUS
  <2>1. Previews!TypeOK
    BY DEF PreviewsIInv, PreviewHeld, PreviewTypes, PreviewShape, SomePreview, Previews!TypeOK
  <2>2. Previews!CapHolds
    BY SameCardinalityOfPreviews DEF PreviewsIInv, RoomForStart, Previews!CapHolds
  <2>3. Previews!ServersReachable
    BY DEF PreviewsIInv, PreviewHeld, UpIsRunning, Previews!ServersReachable
  <2> QED
    BY <2>1, <2>2, <2>3 DEF PreviewsHeld, ShellsIInv
<1> HIDE DEF Inv
<1> QED
  BY <1>1, <1>2, <1>3, PTL DEF PartsSpec
-----------------------------------------------------------------------------
(* Connections and requests of MCP servers. *)
ConnsMade == 1 .. started
Kinds == {"sync", "test", "call"}

ServerTypes ==
  /\ wanted \in Versions \cup {Servers!Off} /\ holder \in Callers \cup {Servers!Nobody}
  /\ entry \in [conn : 0 .. started, of : Versions \cup {Servers!Off}, failed : BOOLEAN]
  /\ started \in 0 .. MaxConns /\ replaced \subseteq ConnsMade
  /\ pc \in [Callers -> {"idle", "locking", "request", "waiting", "leaving"}]
  /\ what \in [Callers -> Kinds \X {"init", "list", "call"}]
  /\ on \in [Callers -> 0 .. started] /\ loaded \in [Callers -> Versions \cup {Servers!Off}]
  /\ outcome \in [Callers -> {"ok", "error"}] /\ ch \in [Callers -> {"empty", "reply", "nil"}]
  /\ sent \subseteq Callers

ConnTypes ==
  /\ proc \in [Servers!Conns -> {"none", "up", "down"}]
  /\ reader \in [Servers!Conns -> {"reading", "failing", "over"}]
  /\ closed \in [Servers!Conns -> BOOLEAN] /\ pending \in [Servers!Conns -> SUBSET Callers]
  /\ toFail \in [Servers!Conns -> Seq(Callers)]

(* A request is over a process that was started. *)
AtConn(c) ==
  /\ pc[c] \in {"idle", "locking"} => on[c] = 0
  /\ pc[c] \in {"request", "waiting", "leaving"} => on[c] # 0

(* A reader that fails what was pending has it all in its list, or failed it already. *)
Awaits(c, k) == pc[c] = "waiting" /\ on[c] = k
ReaderHeld(k) ==
  /\ k > started => proc[k] = "none"
  /\ proc[k] = "none" => reader[k] = "reading"
  /\ reader[k] # "failing" => toFail[k] = <<>>
  /\ \A i \in 1 .. Len(toFail[k]) : toFail[k][i] \in pending[k]
  /\ \A c \in Callers : Awaits(c, k) =>
       /\ reader[k] = "reading" => c \in pending[k]
       /\ reader[k] = "failing" =>
            ch[c] # "empty" \/ \E i \in 1 .. Len(toFail[k]) : toFail[k][i] = c
       /\ reader[k] = "over" => c \in pending[k] \/ ch[c] # "empty"

ServersIInv ==
  /\ ServerTypes /\ ConnTypes
  /\ \A c \in Callers : AtConn(c)
  /\ \A k \in Servers!Conns : ReaderHeld(k)
  /\ Servers!ServersOwned
-----------------------------------------------------------------------------
LEMMA ServerTypesStep ==
  ServerTypes /\ (\A c \in Callers : AtConn(c)) /\ [Servers!Next]_serverVars => ServerTypes'
<1> SUFFICES ASSUME ServerTypes, \A c \in Callers : AtConn(c), [Servers!Next]_serverVars
             PROVE  ServerTypes'
  OBVIOUS
<1> USE ServersAssumption
     DEF ServerTypes, AtConn, ConnsMade, Kinds, Servers!Conns, Servers!NoEntry, Servers!Goes,
         Servers!transportVars, Servers!callerVars
<1>1. CASE Servers!Configure
  BY <1>1 DEF Servers!Configure
<1>2. CASE Servers!Shutdown
  BY <1>2 DEF Servers!Shutdown, Servers!Drop, Servers!CloseConn
<1>3. ASSUME NEW c \in Callers, Servers!SyncLoads(c)
      PROVE  ServerTypes'
  BY <1>3 DEF Servers!SyncLoads
<1>4. ASSUME NEW c \in Callers, Servers!SyncOff(c)
      PROVE  ServerTypes'
  BY <1>4 DEF Servers!SyncOff, Servers!Drop, Servers!CloseConn, Servers!Rests
<1>5. ASSUME NEW c \in Callers, Servers!SyncKeeps(c)
      PROVE  ServerTypes'
  BY <1>5 DEF Servers!SyncKeeps, Servers!Rests
<1>6. ASSUME NEW c \in Callers, Servers!SyncConnects(c)
      PROVE  ServerTypes'
  <2>1. CASE Servers!Dial(c, "sync") /\ holder' = c /\ UNCHANGED <<entry, replaced, loaded, outcome>>
    BY <1>6, <2>1 DEF Servers!SyncConnects, Servers!Dial
  <2>2. ASSUME Servers!Rests(c), UNCHANGED <<started, proc, holder>>,
               entry' = [conn |-> 0, of |-> loaded[c], failed |-> TRUE],
               replaced' = replaced \cup ({entry.conn} \ {0})
        PROVE  ServerTypes'
    <3>1. [conn |-> 0, of |-> loaded[c], failed |-> TRUE]
            \in [conn : 0 .. started, of : Versions \cup {Servers!Off}, failed : BOOLEAN]
      OBVIOUS
    <3>2. replaced' \subseteq 1 .. started
      <4>1. entry.conn \in 0 .. started
        OBVIOUS
      <4>2. \A n \in 0 .. started : n # 0 => n \in 1 .. started
        OBVIOUS
      <4> QED
        BY <2>2, <4>1, <4>2
    <3> QED
      BY <1>6, <2>2, <3>1, <3>2 DEF Servers!SyncConnects, Servers!Rests
  <2> QED
    BY <1>6, <2>1, <2>2 DEF Servers!SyncConnects
<1>7. ASSUME NEW c \in Callers, Servers!TestServer(c)
      PROVE  ServerTypes'
  BY <1>7 DEF Servers!TestServer, Servers!Dial
<1>8. ASSUME NEW c \in Callers, Servers!CallTool(c)
      PROVE  ServerTypes'
  BY <1>8 DEF Servers!CallTool
<1>9. ASSUME NEW c \in Callers, Servers!Send(c)
      PROVE  ServerTypes'
  <2>0. /\ pc[c] = "request" /\ reader[on[c]] # "failing"
        /\ pending' = [pending EXCEPT ![on[c]] = @ \cup {c}] /\ ch' = [ch EXCEPT ![c] = "empty"]
        /\ UNCHANGED <<wanted, entry, holder, started, proc, reader, closed, toFail, what, on,
                       loaded, replaced>>
    BY <1>9 DEF Servers!Send, Servers!MuFree
  <2>1. ASSUME proc[on[c]] = "up", sent' = sent \cup {c}, Servers!Goes(c, "waiting"),
               UNCHANGED outcome
        PROVE  ServerTypes'
    BY <2>0, <2>1
  <2>2. ASSUME Servers!Goes(c, "leaving"), outcome' = [outcome EXCEPT ![c] = "error"],
               UNCHANGED sent
        PROVE  ServerTypes'
    BY <2>0, <2>2
  <2> QED
    BY <1>9, <2>1, <2>2, Zenon DEF Servers!Send
<1>10. ASSUME NEW c \in Callers, Servers!Answer(c)
       PROVE  ServerTypes'
  BY <1>10 DEF Servers!Answer
<1>11. ASSUME NEW c \in Callers, Servers!Receive(c)
       PROVE  ServerTypes'
  BY <1>11 DEF Servers!Receive
<1>12. ASSUME NEW c \in Callers, Servers!GivesUp(c)
       PROVE  ServerTypes'
  BY <1>12 DEF Servers!GivesUp
<1>13. ASSUME NEW c \in Callers, Servers!Leave(c)
       PROVE  ServerTypes'
  <2> DEFINE k == on[c]
             good == outcome[c] = "ok"
  <2>0. /\ pc[c] = "leaving" /\ reader[k] # "failing"
        /\ pending' = [pending EXCEPT ![k] = @ \ {c}]
        /\ sent' = sent \ {c} /\ ch' = [ch EXCEPT ![c] = "empty"]
        /\ UNCHANGED <<wanted, started, reader, toFail>>
    BY <1>13 DEF Servers!Leave, Servers!MuFree
  <2>1. ASSUME what' = [what EXCEPT ![c] = <<what[c][1], "list">>], Servers!Goes(c, "request"),
               UNCHANGED <<entry, holder, closed, proc, replaced, on, loaded, outcome>>
        PROVE  ServerTypes'
    BY <2>0, <2>1
  <2>2. ASSUME what[c][1] = "call", Servers!Rests(c),
               UNCHANGED <<entry, holder, closed, proc, replaced>>
        PROVE  ServerTypes'
    BY <2>0, <2>2 DEF Servers!Rests
  <2>3. ASSUME Servers!CloseConn(k), Servers!Rests(c), UNCHANGED <<entry, holder, replaced>>
        PROVE  ServerTypes'
    BY <2>0, <2>3 DEF Servers!CloseConn, Servers!Rests
  <2>4. ASSUME good, UNCHANGED <<closed, proc>>, holder' = Servers!Nobody, Servers!Rests(c),
               entry' = [conn |-> k, of |-> loaded[c], failed |-> FALSE],
               replaced' = replaced \cup ({entry.conn} \ {0})
        PROVE  ServerTypes'
    <3>1. [conn |-> on[c], of |-> loaded[c], failed |-> FALSE]
            \in [conn : 0 .. started, of : Versions \cup {Servers!Off}, failed : BOOLEAN]
      OBVIOUS
    <3>2. replaced' \subseteq 1 .. started
      <4>1. entry.conn \in 0 .. started
        OBVIOUS
      <4>2. \A n \in 0 .. started : n # 0 => n \in 1 .. started
        OBVIOUS
      <4> QED
        BY <2>4, <4>1, <4>2
    <3> QED
      BY <2>0, <2>4, <3>1, <3>2 DEF Servers!Rests
  <2>5. ASSUME ~good, Servers!CloseConn(k), holder' = Servers!Nobody, Servers!Rests(c),
               entry' = [conn |-> 0, of |-> loaded[c], failed |-> TRUE],
               replaced' = replaced \cup ({entry.conn} \ {0})
        PROVE  ServerTypes'
    <3>1. [conn |-> 0, of |-> loaded[c], failed |-> TRUE]
            \in [conn : 0 .. started, of : Versions \cup {Servers!Off}, failed : BOOLEAN]
      OBVIOUS
    <3>2. replaced' \subseteq 1 .. started
      <4>1. entry.conn \in 0 .. started
        OBVIOUS
      <4>2. \A n \in 0 .. started : n # 0 => n \in 1 .. started
        OBVIOUS
      <4> QED
        BY <2>5, <4>1, <4>2
    <3> QED
      BY <2>0, <2>5, <3>1, <3>2 DEF Servers!Rests
  <2> QED
    BY <1>13, <2>1, <2>2, <2>3, <2>4, <2>5, Zenon DEF Servers!Leave
<1>14. ASSUME NEW k \in Servers!Conns, Servers!ProcessExits(k)
       PROVE  ServerTypes'
  BY <1>14 DEF Servers!ProcessExits
<1>15. ASSUME NEW k \in Servers!Conns, Servers!ReadEnds(k)
       PROVE  ServerTypes'
  BY <1>15 DEF Servers!ReadEnds
<1>16. ASSUME NEW k \in Servers!Conns, Servers!FailNext(k)
       PROVE  ServerTypes'
  BY <1>16 DEF Servers!FailNext
<1>17. CASE UNCHANGED serverVars
  BY <1>17 DEF serverVars
<1> QED
  BY <1>1, <1>2, <1>3, <1>4, <1>5, <1>6, <1>7, <1>8, <1>9, <1>10, <1>11, <1>12, <1>13, <1>14,
     <1>15, <1>16, <1>17
     DEF Servers!Next

(* The pending requests in the order in which a map is walked are all of them. *)
LEMMA OrdersAll ==
  ASSUME NEW S \in SUBSET Callers, NEW order \in Servers!AllOf(S)
  PROVE  /\ order \in Seq(Callers) /\ \A i \in 1 .. Len(order) : order[i] \in S
         /\ \A c \in S : \E i \in 1 .. Len(order) : order[i] = c
<1> DEFINE n == Cardinality(S)
<1>1. IsFiniteSet(S) /\ n \in Nat
  BY ServersAssumption, FS_Subset, FS_CardinalityType
<1>2. Servers!Cardinality(S) = n
  BY DEF Servers!Cardinality, Cardinality
<1>3. order \in [1 .. n -> S] /\ \A i, j \in 1 .. n : i # j => order[i] # order[j]
  BY <1>2, Zenon DEF Servers!AllOf, Servers!SetToSeqs
<1>4. IsFiniteSet(1 .. n) /\ Cardinality(1 .. n) = n
  BY <1>1, FS_Interval
<1>5. order \in Injection(1 .. n, S)
  BY <1>3 DEF Injection, IsInjective
<1>6. order \in Surjection(1 .. n, S)
  BY <1>1, <1>4, <1>5, FS_Injection
<1>7. \A c \in S : \E i \in 1 .. n : order[i] = c
  BY <1>6 DEF Surjection
<1>8. order \in Seq(Callers) /\ Len(order) = n
  BY <1>1, <1>3
<1> QED
  BY <1>3, <1>7, <1>8

LEMMA OrdersPending ==
  ASSUME NEW k, pending[k] \in SUBSET Callers, NEW order, order \in Servers!AllOf(pending[k])
  PROVE  /\ order \in Seq(Callers) /\ \A i \in 1 .. Len(order) : order[i] \in pending[k]
         /\ \A c \in pending[k] : \E i \in 1 .. Len(order) : order[i] = c
<1> DEFINE S == pending[k]
<1>1. S \in SUBSET Callers /\ order \in Servers!AllOf(S)
  OBVIOUS
<1> HIDE DEF S
<1>2. /\ order \in Seq(Callers) /\ \A i \in 1 .. Len(order) : order[i] \in S
      /\ \A c \in S : \E i \in 1 .. Len(order) : order[i] = c
  BY <1>1, OrdersAll
<1> QED
  BY <1>2 DEF S

LEMMA ConnTypesStep ==
  ServerTypes /\ ConnTypes /\ [Servers!Next]_serverVars => ConnTypes'
<1> SUFFICES ASSUME ServerTypes, ConnTypes, [Servers!Next]_serverVars
             PROVE  ConnTypes'
  OBVIOUS
<1> USE ServersAssumption
     DEF ServerTypes, ConnTypes, Servers!Conns, Servers!transportVars, Servers!callerVars
<1>1. CASE Servers!Configure
  BY <1>1 DEF Servers!Configure
<1>2. CASE Servers!Shutdown
  <2>0. UNCHANGED <<reader, pending, toFail>>
    BY <1>2 DEF Servers!Shutdown
  <2>1. CASE UNCHANGED <<closed, proc>>
    BY <2>0, <2>1
  <2>2. CASE Servers!CloseConn(entry.conn)
    BY <2>0, <2>2 DEF Servers!CloseConn
  <2> QED
    BY <1>2, <2>1, <2>2 DEF Servers!Shutdown, Servers!Drop
<1>3. ASSUME NEW c \in Callers, Servers!SyncLoads(c)
      PROVE  ConnTypes'
  BY <1>3 DEF Servers!SyncLoads
<1>4. ASSUME NEW c \in Callers, Servers!SyncOff(c)
      PROVE  ConnTypes'
  BY <1>4 DEF Servers!SyncOff, Servers!Drop, Servers!CloseConn, Servers!Rests
<1>5. ASSUME NEW c \in Callers, Servers!SyncKeeps(c)
      PROVE  ConnTypes'
  BY <1>5 DEF Servers!SyncKeeps, Servers!Rests
<1>6. ASSUME NEW c \in Callers, Servers!SyncConnects(c)
      PROVE  ConnTypes'
  BY <1>6 DEF Servers!SyncConnects, Servers!Dial, Servers!Rests
<1>7. ASSUME NEW c \in Callers, Servers!TestServer(c)
      PROVE  ConnTypes'
  BY <1>7 DEF Servers!TestServer, Servers!Dial
<1>8. ASSUME NEW c \in Callers, Servers!CallTool(c)
      PROVE  ConnTypes'
  BY <1>8 DEF Servers!CallTool
<1>9. ASSUME NEW c \in Callers, Servers!Send(c)
      PROVE  ConnTypes'
  BY <1>9 DEF Servers!Send
<1>10. ASSUME NEW c \in Callers, Servers!Answer(c)
       PROVE  ConnTypes'
  BY <1>10 DEF Servers!Answer
<1>11. ASSUME NEW c \in Callers, Servers!Receive(c)
       PROVE  ConnTypes'
  BY <1>11 DEF Servers!Receive
<1>12. ASSUME NEW c \in Callers, Servers!GivesUp(c)
       PROVE  ConnTypes'
  BY <1>12 DEF Servers!GivesUp
<1>13. ASSUME NEW c \in Callers, Servers!Leave(c)
       PROVE  ConnTypes'
  <2> DEFINE k == on[c]
             good == outcome[c] = "ok"
  <2>0. /\ pc[c] = "leaving" /\ reader[k] # "failing"
        /\ pending' = [pending EXCEPT ![k] = @ \ {c}]
        /\ sent' = sent \ {c} /\ ch' = [ch EXCEPT ![c] = "empty"]
        /\ UNCHANGED <<wanted, started, reader, toFail>>
    BY <1>13 DEF Servers!Leave, Servers!MuFree
  <2>1. ASSUME what' = [what EXCEPT ![c] = <<what[c][1], "list">>], Servers!Goes(c, "request"),
               UNCHANGED <<entry, holder, closed, proc, replaced, on, loaded, outcome>>
        PROVE  ConnTypes'
    BY <2>0, <2>1
  <2>2. ASSUME what[c][1] = "call", Servers!Rests(c),
               UNCHANGED <<entry, holder, closed, proc, replaced>>
        PROVE  ConnTypes'
    BY <2>0, <2>2 DEF Servers!Rests
  <2>3. ASSUME Servers!CloseConn(k), Servers!Rests(c), UNCHANGED <<entry, holder, replaced>>
        PROVE  ConnTypes'
    BY <2>0, <2>3 DEF Servers!CloseConn, Servers!Rests
  <2>4. ASSUME good, UNCHANGED <<closed, proc>>, holder' = Servers!Nobody, Servers!Rests(c),
               entry' = [conn |-> k, of |-> loaded[c], failed |-> FALSE],
               replaced' = replaced \cup ({entry.conn} \ {0})
        PROVE  ConnTypes'
    BY <2>0, <2>4 DEF Servers!Rests
  <2>5. ASSUME ~good, Servers!CloseConn(k), holder' = Servers!Nobody, Servers!Rests(c),
               entry' = [conn |-> 0, of |-> loaded[c], failed |-> TRUE],
               replaced' = replaced \cup ({entry.conn} \ {0})
        PROVE  ConnTypes'
    BY <2>0, <2>5 DEF Servers!CloseConn, Servers!Rests
  <2> QED
    BY <1>13, <2>1, <2>2, <2>3, <2>4, <2>5, Zenon DEF Servers!Leave
<1>14. ASSUME NEW k \in Servers!Conns, Servers!ProcessExits(k)
       PROVE  ConnTypes'
  BY <1>14 DEF Servers!ProcessExits
<1>15. ASSUME NEW k \in Servers!Conns, Servers!ReadEnds(k)
       PROVE  ConnTypes'
  <2>1. PICK order \in Servers!AllOf(pending[k]) : toFail' = [toFail EXCEPT ![k] = order]
    BY <1>15 DEF Servers!ReadEnds
  <2>2. order \in Seq(Callers)
    BY <2>1, OrdersAll
  <2> QED
    BY <1>15, <2>1, <2>2 DEF Servers!ReadEnds
<1>16. ASSUME NEW k \in Servers!Conns, Servers!FailNext(k)
       PROVE  ConnTypes'
  <2>1. CASE toFail[k] = <<>>
    BY <1>16, <2>1 DEF Servers!FailNext
  <2>2. CASE toFail[k] # <<>>
    <3>1. Tail(toFail[k]) \in Seq(Callers)
      BY <2>2
    <3> QED
      <4>1. toFail' = [toFail EXCEPT ![k] = Tail(toFail[k])] /\ UNCHANGED <<reader, pending>>
        BY <1>16, <2>2 DEF Servers!FailNext
      <4>2. UNCHANGED <<proc, closed>>
        BY <1>16 DEF Servers!FailNext
      <4> QED
        BY <3>1, <4>1, <4>2
  <2> QED
    BY <2>1, <2>2
<1>17. CASE UNCHANGED serverVars
  BY <1>17 DEF serverVars
<1> QED
  BY <1>1, <1>2, <1>3, <1>4, <1>5, <1>6, <1>7, <1>8, <1>9, <1>10, <1>11, <1>12, <1>13, <1>14,
     <1>15, <1>16, <1>17
     DEF Servers!Next

LEMMA AtConnStep ==
  ServerTypes /\ (\A c \in Callers : AtConn(c)) /\ [Servers!Next]_serverVars =>
    (\A c \in Callers : AtConn(c))'
<1> SUFFICES ASSUME ServerTypes, \A c \in Callers : AtConn(c), [Servers!Next]_serverVars
             PROVE  (\A c \in Callers : AtConn(c))'
  OBVIOUS
<1> USE DEF ServerTypes, AtConn, Servers!Goes, Servers!transportVars, Servers!callerVars
<1>1. CASE Servers!Configure
  BY <1>1 DEF Servers!Configure
<1>2. CASE Servers!Shutdown
  BY <1>2 DEF Servers!Shutdown, Servers!Drop, Servers!CloseConn
<1>3. ASSUME NEW c \in Callers, Servers!SyncLoads(c)
      PROVE  (\A d \in Callers : AtConn(d))'
  BY <1>3 DEF Servers!SyncLoads
<1>4. ASSUME NEW c \in Callers, Servers!SyncOff(c)
      PROVE  (\A d \in Callers : AtConn(d))'
  BY <1>4 DEF Servers!SyncOff, Servers!Drop, Servers!CloseConn, Servers!Rests
<1>5. ASSUME NEW c \in Callers, Servers!SyncKeeps(c)
      PROVE  (\A d \in Callers : AtConn(d))'
  BY <1>5 DEF Servers!SyncKeeps, Servers!Rests
<1>6. ASSUME NEW c \in Callers, Servers!SyncConnects(c)
      PROVE  (\A d \in Callers : AtConn(d))'
  BY <1>6 DEF Servers!SyncConnects, Servers!Dial, Servers!Rests
<1>7. ASSUME NEW c \in Callers, Servers!TestServer(c)
      PROVE  (\A d \in Callers : AtConn(d))'
  BY <1>7 DEF Servers!TestServer, Servers!Dial
<1>8. ASSUME NEW c \in Callers, Servers!CallTool(c)
      PROVE  (\A d \in Callers : AtConn(d))'
  BY <1>8 DEF Servers!CallTool
<1>9. ASSUME NEW c \in Callers, Servers!Send(c)
      PROVE  (\A d \in Callers : AtConn(d))'
  BY <1>9 DEF Servers!Send
<1>10. ASSUME NEW c \in Callers, Servers!Answer(c)
       PROVE  (\A d \in Callers : AtConn(d))'
  BY <1>10 DEF Servers!Answer
<1>11. ASSUME NEW c \in Callers, Servers!Receive(c)
       PROVE  (\A d \in Callers : AtConn(d))'
  BY <1>11 DEF Servers!Receive
<1>12. ASSUME NEW c \in Callers, Servers!GivesUp(c)
       PROVE  (\A d \in Callers : AtConn(d))'
  BY <1>12 DEF Servers!GivesUp
<1>13. ASSUME NEW c \in Callers, Servers!Leave(c)
       PROVE  (\A d \in Callers : AtConn(d))'
  BY <1>13 DEF Servers!Leave, Servers!CloseConn, Servers!Rests
<1>14. ASSUME NEW k \in Servers!Conns, Servers!ProcessExits(k)
       PROVE  (\A d \in Callers : AtConn(d))'
  BY <1>14 DEF Servers!ProcessExits
<1>15. ASSUME NEW k \in Servers!Conns, Servers!ReadEnds(k)
       PROVE  (\A d \in Callers : AtConn(d))'
  BY <1>15 DEF Servers!ReadEnds
<1>16. ASSUME NEW k \in Servers!Conns, Servers!FailNext(k)
       PROVE  (\A d \in Callers : AtConn(d))'
  BY <1>16 DEF Servers!FailNext
<1>17. CASE UNCHANGED serverVars
  BY <1>17 DEF serverVars
<1> QED
  BY <1>1, <1>2, <1>3, <1>4, <1>5, <1>6, <1>7, <1>8, <1>9, <1>10, <1>11, <1>12, <1>13, <1>14,
     <1>15, <1>16, <1>17
     DEF Servers!Next

(* What keeps a process's reader in step, whatever else moves. *)
LEMMA ReaderFrame ==
  ASSUME NEW j \in Servers!Conns, ReaderHeld(j), reader'[j] = reader[j], toFail'[j] = toFail[j],
         j > started' => proc'[j] = "none",
         proc'[j] = "none" => reader[j] = "reading",
         reader[j] = "failing" => pending[j] \subseteq pending'[j],
         \A d \in Callers : Awaits(d, j)' =>
           \/ /\ Awaits(d, j)
              /\ ch[d] # "empty" => ch'[d] # "empty"
              /\ d \in pending[j] => d \in pending'[j]
           \/ reader[j] # "failing" /\ d \in pending'[j]
  PROVE  ReaderHeld(j)'
<1>1. \A i \in 1 .. Len(toFail[j]) : toFail[j][i] \in pending'[j]
  <2>1. CASE reader[j] = "failing"
    BY <2>1 DEF ReaderHeld
  <2>2. CASE reader[j] # "failing"
    <3>1. Len(toFail[j]) = 0
      BY <2>2 DEF ReaderHeld
    <3> QED
      BY <3>1
  <2> QED
    BY <2>1, <2>2
<1>2. ASSUME NEW d \in Callers, Awaits(d, j)'
      PROVE  /\ reader[j] = "reading" => d \in pending'[j]
             /\ reader[j] = "failing" =>
                  ch'[d] # "empty" \/ \E i \in 1 .. Len(toFail[j]) : toFail[j][i] = d
             /\ reader[j] = "over" => d \in pending'[j] \/ ch'[d] # "empty"
  BY <1>2 DEF ReaderHeld
<1>3. reader[j] # "failing" => toFail[j] = <<>>
  BY DEF ReaderHeld
<1> QED
  BY <1>1, <1>2, <1>3 DEF ReaderHeld

LEMMA ReaderStep ==
  /\ ServerTypes /\ ConnTypes /\ \A c \in Callers : AtConn(c)
  /\ \A k \in Servers!Conns : ReaderHeld(k)
  /\ [Servers!Next]_serverVars
  => (\A k \in Servers!Conns : ReaderHeld(k))'
<1> SUFFICES ASSUME ServerTypes, ConnTypes, \A c \in Callers : AtConn(c),
                    \A k \in Servers!Conns : ReaderHeld(k), [Servers!Next]_serverVars,
                    NEW j \in Servers!Conns
             PROVE  ReaderHeld(j)'
  BY DEF Servers!Conns
<1> DEFINE Stays(d) ==
      \/ /\ Awaits(d, j)
         /\ ch[d] # "empty" => ch'[d] # "empty"
         /\ d \in pending[j] => d \in pending'[j]
      \/ reader[j] # "failing" /\ d \in pending'[j]
    Framed == /\ reader'[j] = reader[j] /\ toFail'[j] = toFail[j]
              /\ j > started' => proc'[j] = "none"
              /\ proc'[j] = "none" => reader[j] = "reading"
              /\ reader[j] = "failing" => pending[j] \subseteq pending'[j]
              /\ \A d \in Callers : Awaits(d, j)' => Stays(d)
<1>0. Framed => ReaderHeld(j)'
  BY ReaderFrame
<1>a. /\ j > started => proc[j] = "none"
      /\ proc[j] = "none" => reader[j] = "reading"
      /\ j \in Nat /\ started \in Nat /\ j >= 1
  BY DEF ReaderHeld, Servers!Conns, ServerTypes
<1> USE ServersAssumption
     DEF ServerTypes, ConnTypes, Awaits, AtConn, Servers!Conns, Servers!Goes, Servers!MuFree,
         Servers!transportVars, Servers!callerVars
<1>1. CASE Servers!Configure
  <2>1. UNCHANGED <<started, proc, reader, pending, toFail, pc, on, ch>>
    BY <1>1 DEF Servers!Configure
  <2> QED
    BY <1>0, <1>a, <2>1
<1>2. CASE Servers!Shutdown
  <2>1. UNCHANGED <<started, reader, pending, toFail, pc, on, ch>>
    BY <1>2 DEF Servers!Shutdown
  <2>2. UNCHANGED proc \/ proc' = [proc EXCEPT ![entry.conn] = "down"]
    BY <1>2 DEF Servers!Shutdown, Servers!Drop, Servers!CloseConn
  <2>3. proc'[j] = "none" => proc[j] = "none"
    BY <2>2
  <2>4. j > started => proc'[j] = "none"
    BY <1>a, <2>2
  <2> QED
    BY <1>0, <1>a, <2>1, <2>3, <2>4
<1>3. ASSUME NEW c \in Callers, Servers!SyncLoads(c)
      PROVE  Framed
  BY <1>a, <1>3 DEF Servers!SyncLoads
<1>4. ASSUME NEW c \in Callers, Servers!SyncOff(c)
      PROVE  Framed
  BY <1>a, <1>4 DEF Servers!SyncOff, Servers!Drop, Servers!CloseConn, Servers!Rests
<1>5. ASSUME NEW c \in Callers, Servers!SyncKeeps(c)
      PROVE  Framed
  BY <1>a, <1>5 DEF Servers!SyncKeeps, Servers!Rests
<1>6. ASSUME NEW c \in Callers, Servers!SyncConnects(c)
      PROVE  Framed
  BY <1>a, <1>6 DEF Servers!SyncConnects, Servers!Dial, Servers!Rests
<1>7. ASSUME NEW c \in Callers, Servers!TestServer(c)
      PROVE  Framed
  BY <1>a, <1>7 DEF Servers!TestServer, Servers!Dial
<1>8. ASSUME NEW c \in Callers, Servers!CallTool(c)
      PROVE  Framed
  BY <1>a, <1>8 DEF Servers!CallTool
<1>9. ASSUME NEW c \in Callers, Servers!Send(c)
      PROVE  Framed
  BY <1>a, <1>9 DEF Servers!Send
<1>10. ASSUME NEW c \in Callers, Servers!Answer(c)
       PROVE  Framed
  BY <1>a, <1>10 DEF Servers!Answer
<1>11. ASSUME NEW c \in Callers, Servers!Receive(c)
       PROVE  Framed
  BY <1>a, <1>11 DEF Servers!Receive
<1>12. ASSUME NEW c \in Callers, Servers!GivesUp(c)
       PROVE  Framed
  BY <1>a, <1>12 DEF Servers!GivesUp
<1>13. ASSUME NEW c \in Callers, Servers!Leave(c)
       PROVE  Framed
  <2> DEFINE k == on[c]
  <2>1. /\ pc[c] = "leaving" /\ reader[k] # "failing" /\ k \in Servers!Conns
        /\ pending' = [pending EXCEPT ![k] = pending[k] \ {c}]
        /\ ch' = [ch EXCEPT ![c] = "empty"] /\ UNCHANGED <<started, reader, toFail>>
    BY <1>13 DEF Servers!Leave
  <2>2. /\ UNCHANGED proc \/ proc' = [proc EXCEPT ![k] = "down"]
        /\ UNCHANGED on \/ on' = [on EXCEPT ![c] = 0]
        /\ \E place \in {"request", "idle"} : pc' = [pc EXCEPT ![c] = place]
    BY <1>13 DEF Servers!Leave, Servers!CloseConn, Servers!Rests
  <2> HIDE DEF k
  <2>3. /\ proc'[j] = "none" => reader[j] = "reading"
        /\ j > started' => proc'[j] = "none"
    <3>1. k \in 1 .. started
      BY <2>1 DEF k
    <3> QED
      BY <1>a, <2>1, <2>2, <3>1
  <2>4. reader[j] = "failing" => pending[j] \subseteq pending'[j]
    BY <2>1
  <2>5. ASSUME NEW d \in Callers, Awaits(d, j)'
        PROVE  Awaits(d, j) /\ ch'[d] = ch[d] /\ (d \in pending[j] => d \in pending'[j])
    <3>1. d # c /\ pc[d] = "waiting" /\ on[d] = j
      BY <2>2, <2>5
    <3> QED
      BY <2>1, <3>1
  <2> QED
    BY <2>1, <2>3, <2>4, <2>5
<1>14. ASSUME NEW k \in Servers!Conns, Servers!ProcessExits(k)
       PROVE  Framed
  BY <1>a, <1>14 DEF Servers!ProcessExits
<1>15. CASE UNCHANGED serverVars
  <2>1. UNCHANGED <<started, proc, reader, pending, toFail, pc, on, ch>>
    BY <1>15 DEF serverVars
  <2> QED
    BY <1>0, <1>a, <2>1
<1>16. ASSUME NEW k \in Servers!Conns, Servers!ReadEnds(k)
       PROVE  ReaderHeld(j)'
  <2>1. PICK order \in Servers!AllOf(pending[k]) : toFail' = [toFail EXCEPT ![k] = order]
    BY <1>16 DEF Servers!ReadEnds
  <2>0. pending[k] \in SUBSET Callers
    OBVIOUS
  <2>2. /\ order \in Seq(Callers) /\ \A i \in 1 .. Len(order) : order[i] \in pending[k]
        /\ \A d \in pending[k] : \E i \in 1 .. Len(order) : order[i] = d
    <3>1. order \in Servers!AllOf(pending[k])
      OBVIOUS
    <3> HIDE DEF ServerTypes, ConnTypes, AtConn, Awaits, Servers!Conns
    <3> QED
      BY <2>0, <3>1, OrdersPending
  <2>3. /\ proc[k] # "none" /\ reader[k] = "reading" /\ reader' = [reader EXCEPT ![k] = "failing"]
        /\ UNCHANGED <<started, proc, pending, pc, on, ch>>
    BY <1>16 DEF Servers!ReadEnds
  <2>4. toFail'[k] = order /\ \A l \in Servers!Conns \ {k} : toFail'[l] = toFail[l]
    BY <2>1
  <2>5. CASE j # k
    <3>1. Framed
      BY <1>a, <2>3, <2>4, <2>5
    <3> QED
      BY <1>0, <3>1
  <2>6. CASE j = k
    <3>1. /\ reader'[j] = "failing" /\ toFail'[j] = order /\ proc'[j] # "none"
          /\ pending'[j] = pending[j] /\ j <= started
      BY <1>a, <2>3, <2>4, <2>6
    <3>2. ASSUME NEW d \in Callers, Awaits(d, j)'
          PROVE  d \in pending[j]
      BY <2>3, <2>6, <3>2 DEF ReaderHeld
    <3> HIDE DEF ServerTypes, ConnTypes, AtConn, Awaits
    <3>3. \A i \in 1 .. Len(toFail'[j]) : toFail'[j][i] \in pending'[j]
      BY <2>2, <2>6, <3>1
    <3>4. ASSUME NEW d \in Callers, Awaits(d, j)'
          PROVE  \E i \in 1 .. Len(toFail'[j]) : toFail'[j][i] = d
      BY <2>2, <2>6, <3>1, <3>2, <3>4
    <3>5. ~(j > started') /\ reader'[j] = "failing" /\ proc'[j] # "none"
      BY <1>a, <2>3, <3>1
    <3> QED
      BY <3>3, <3>4, <3>5 DEF ReaderHeld
  <2> QED
    BY <2>5, <2>6
<1>17. ASSUME NEW k \in Servers!Conns, Servers!FailNext(k)
       PROVE  ReaderHeld(j)'
  <2>0. reader[k] = "failing" /\ UNCHANGED <<started, proc, pc, on>>
    BY <1>17 DEF Servers!FailNext
  <2>1. CASE toFail[k] = <<>>
    <3>1. /\ reader' = [reader EXCEPT ![k] = "over"] /\ pending' = [pending EXCEPT ![k] = {}]
          /\ UNCHANGED <<toFail, ch>>
      BY <1>17, <2>1 DEF Servers!FailNext
    <3>2. Len(toFail[k]) = 0
      BY <2>1
    <3>3. CASE j # k
      <4>1. Framed
        BY <1>a, <2>0, <3>1, <3>3
      <4> QED
        BY <1>0, <4>1
    <3>4. CASE j = k
      <4>1. /\ reader'[j] = "over" /\ toFail'[j] = <<>> /\ proc'[j] # "none" /\ j <= started
        BY <1>a, <2>0, <2>1, <3>1, <3>4
      <4>2. ASSUME NEW d \in Callers, Awaits(d, j)'
            PROVE  ch[d] # "empty"
        BY <2>0, <3>2, <3>4, <4>2 DEF ReaderHeld
      <4>3. Len(toFail'[j]) = 0
        BY <4>1
      <4> HIDE DEF ServerTypes, ConnTypes, AtConn, Awaits
      <4> QED
        BY <1>a, <2>0, <3>1, <4>1, <4>2, <4>3 DEF ReaderHeld
    <3> QED
      BY <3>3, <3>4
  <2>2. CASE toFail[k] # <<>>
    <3> DEFINE s == toFail[k]
               h == Head(s)
               t == Tail(s)
    <3>1. /\ ch[h] = "empty" /\ ch' = [ch EXCEPT ![h] = "nil"]
          /\ toFail' = [toFail EXCEPT ![k] = t] /\ UNCHANGED <<reader, pending>>
      BY <1>17, <2>2 DEF Servers!FailNext
    <3>2. /\ h \in Callers /\ h = s[1] /\ Len(s) \in Nat /\ Len(s) >= 1 /\ Len(t) = Len(s) - 1
          /\ \A i \in 1 .. Len(t) : t[i] = s[i + 1]
      BY <2>2
    <3> HIDE DEF s, h, t
    <3>3. /\ \A i \in 1 .. Len(t) : \E l \in 1 .. Len(s) : t[i] = s[l]
          /\ \A i \in 1 .. Len(s) : s[i] = h \/ \E l \in 1 .. Len(t) : s[i] = t[l]
      <4>1. ASSUME NEW i \in 1 .. Len(s), i # 1
            PROVE  \E l \in 1 .. Len(t) : s[i] = t[l]
        <5>1. i - 1 \in 1 .. Len(t) /\ (i - 1) + 1 = i
          BY <3>2, <4>1
        <5>2. t[i - 1] = s[(i - 1) + 1]
          BY <3>2, <5>1
        <5> QED
          BY <5>1, <5>2
      <4>2. \A i \in 1 .. Len(t) : i + 1 \in 1 .. Len(s)
        BY <3>2
      <4> QED
        BY <3>2, <4>1, <4>2
    <3>4. /\ \A d \in Callers : ch'[d] = IF d = h THEN "nil" ELSE ch[d]
          /\ \A l \in Servers!Conns : toFail'[l] = IF l = k THEN t ELSE toFail[l]
      BY <3>1, <3>2
    <3>5. CASE j # k
      <4>1. Framed
        BY <1>a, <2>0, <3>1, <3>4, <3>5
      <4> QED
        BY <1>0, <4>1
    <3>6. CASE j = k
      <4>1. \A i \in 1 .. Len(s) : s[i] \in pending[k]
        BY DEF s, ReaderHeld
      <4>2. \A i \in 1 .. Len(t) : t[i] \in pending[k]
        <5> SUFFICES ASSUME NEW i \in 1 .. Len(t)
                     PROVE  t[i] \in pending[k]
          OBVIOUS
        <5>1. PICK l \in 1 .. Len(s) : t[i] = s[l]
          BY <3>3
        <5> QED
          BY <4>1, <5>1
      <4>3. ASSUME NEW d \in Callers, Awaits(d, j)
            PROVE  ch'[d] # "empty" \/ \E i \in 1 .. Len(t) : t[i] = d
        <5>1. ch[d] # "empty" \/ \E i \in 1 .. Len(s) : s[i] = d
          BY <2>0, <3>6, <4>3 DEF ReaderHeld, s
        <5> QED
          <6>1. CASE ch[d] # "empty"
            BY <3>4, <6>1
          <6>2. ASSUME NEW i \in 1 .. Len(s), s[i] = d
                PROVE  d = h \/ \E l \in 1 .. Len(t) : t[l] = d
            BY <3>3, <6>2
          <6> QED
            BY <3>4, <5>1, <6>1, <6>2
      <4> QED
        BY <1>a, <2>0, <3>1, <3>4, <3>6, <4>2, <4>3 DEF ReaderHeld
    <3> QED
      BY <3>5, <3>6
  <2> QED
    BY <2>1, <2>2
<1> HIDE DEF Framed
<1> QED
  BY <1>0, <1>1, <1>2, <1>3, <1>4, <1>5, <1>6, <1>7, <1>8, <1>9, <1>10, <1>11, <1>12, <1>13, <1>14,
     <1>15, <1>16, <1>17, Zenon
     DEF Servers!Next

LEMMA OwnedStep ==
  /\ ServerTypes /\ ConnTypes /\ \A c \in Callers : AtConn(c)
  /\ \A k \in Servers!Conns : ReaderHeld(k)
  /\ Servers!ServersOwned /\ [Servers!Next]_serverVars
  => Servers!ServersOwned'
<1> SUFFICES ASSUME ServerTypes, ConnTypes, \A c \in Callers : AtConn(c),
                    \A k \in Servers!Conns : ReaderHeld(k), Servers!ServersOwned,
                    [Servers!Next]_serverVars, NEW j \in Servers!Conns, proc'[j] = "up"
             PROVE  \/ entry'.conn = j \/ j \in replaced'
                    \/ \E c \in Callers : on'[c] = j /\ pc'[c] # "idle" /\ what'[c][1] # "call"
  BY DEF Servers!ServersOwned
<1> DEFINE Owned(e, r, p, w, o) ==
      \/ e.conn = j \/ j \in r
      \/ \E c \in Callers : o[c] = j /\ p[c] # "idle" /\ w[c][1] # "call"
<1>0. proc[j] = "up" => Owned(entry, replaced, pc, what, on)
  BY DEF Servers!ServersOwned
<1> USE <1>0, ServersAssumption
     DEF ServerTypes, ConnTypes, AtConn, Servers!Conns, Servers!Goes, Servers!NoEntry,
         Servers!transportVars, Servers!callerVars
<1>1. CASE Servers!Configure
  BY <1>1 DEF Servers!Configure
<1>2. CASE Servers!Shutdown
  BY <1>2 DEF Servers!Shutdown, Servers!Drop, Servers!CloseConn
<1>3. ASSUME NEW c \in Callers, Servers!SyncLoads(c)
      PROVE  Owned(entry', replaced', pc', what', on')
  BY <1>3 DEF Servers!SyncLoads
<1>4. ASSUME NEW c \in Callers, Servers!SyncOff(c)
      PROVE  Owned(entry', replaced', pc', what', on')
  BY <1>4 DEF Servers!SyncOff, Servers!Drop, Servers!CloseConn, Servers!Rests
<1>5. ASSUME NEW c \in Callers, Servers!SyncKeeps(c)
      PROVE  Owned(entry', replaced', pc', what', on')
  BY <1>5 DEF Servers!SyncKeeps, Servers!Rests
<1>6. ASSUME NEW c \in Callers, Servers!SyncConnects(c)
      PROVE  Owned(entry', replaced', pc', what', on')
  <2>1. CASE Servers!Dial(c, "sync") /\ holder' = c /\ UNCHANGED <<entry, replaced, loaded, outcome>>
    BY <1>6, <2>1 DEF Servers!SyncConnects, Servers!Dial
  <2>2. ASSUME Servers!Rests(c), UNCHANGED <<started, proc, holder>>,
               entry' = [conn |-> 0, of |-> loaded[c], failed |-> TRUE],
               replaced' = replaced \cup ({entry.conn} \ {0})
        PROVE  Owned(entry', replaced', pc', what', on')
    BY <1>6, <2>2 DEF Servers!SyncConnects, Servers!Rests
  <2> QED
    BY <1>6, <2>1, <2>2 DEF Servers!SyncConnects
<1>7. ASSUME NEW c \in Callers, Servers!TestServer(c)
      PROVE  Owned(entry', replaced', pc', what', on')
  BY <1>7 DEF Servers!TestServer, Servers!Dial
<1>8. ASSUME NEW c \in Callers, Servers!CallTool(c)
      PROVE  Owned(entry', replaced', pc', what', on')
  BY <1>8 DEF Servers!CallTool
<1>9. ASSUME NEW c \in Callers, Servers!Send(c)
      PROVE  Owned(entry', replaced', pc', what', on')
  BY <1>9 DEF Servers!Send
<1>10. ASSUME NEW c \in Callers, Servers!Answer(c)
       PROVE  Owned(entry', replaced', pc', what', on')
  BY <1>10 DEF Servers!Answer
<1>11. ASSUME NEW c \in Callers, Servers!Receive(c)
       PROVE  Owned(entry', replaced', pc', what', on')
  BY <1>11 DEF Servers!Receive
<1>12. ASSUME NEW c \in Callers, Servers!GivesUp(c)
       PROVE  Owned(entry', replaced', pc', what', on')
  BY <1>12 DEF Servers!GivesUp
<1>13. ASSUME NEW c \in Callers, Servers!Leave(c)
       PROVE  Owned(entry', replaced', pc', what', on')
  <2> DEFINE k == on[c]
             good == outcome[c] = "ok"
  <2>0. /\ pc[c] = "leaving" /\ reader[k] # "failing"
        /\ pending' = [pending EXCEPT ![k] = @ \ {c}]
        /\ sent' = sent \ {c} /\ ch' = [ch EXCEPT ![c] = "empty"]
        /\ UNCHANGED <<wanted, started, reader, toFail>>
    BY <1>13 DEF Servers!Leave, Servers!MuFree
  <2>1. ASSUME what' = [what EXCEPT ![c] = <<what[c][1], "list">>], Servers!Goes(c, "request"),
               UNCHANGED <<entry, holder, closed, proc, replaced, on, loaded, outcome>>
        PROVE  Owned(entry', replaced', pc', what', on')
    BY <2>0, <2>1
  <2>2. ASSUME what[c][1] = "call", Servers!Rests(c),
               UNCHANGED <<entry, holder, closed, proc, replaced>>
        PROVE  Owned(entry', replaced', pc', what', on')
    BY <2>0, <2>2 DEF Servers!Rests
  <2>3. ASSUME Servers!CloseConn(k), Servers!Rests(c), UNCHANGED <<entry, holder, replaced>>
        PROVE  Owned(entry', replaced', pc', what', on')
    BY <2>0, <2>3 DEF Servers!CloseConn, Servers!Rests
  <2>4. ASSUME good, UNCHANGED <<closed, proc>>, holder' = Servers!Nobody, Servers!Rests(c),
               entry' = [conn |-> k, of |-> loaded[c], failed |-> FALSE],
               replaced' = replaced \cup ({entry.conn} \ {0})
        PROVE  Owned(entry', replaced', pc', what', on')
    BY <2>0, <2>4 DEF Servers!Rests
  <2>5. ASSUME ~good, Servers!CloseConn(k), holder' = Servers!Nobody, Servers!Rests(c),
               entry' = [conn |-> 0, of |-> loaded[c], failed |-> TRUE],
               replaced' = replaced \cup ({entry.conn} \ {0})
        PROVE  Owned(entry', replaced', pc', what', on')
    BY <2>0, <2>5 DEF Servers!CloseConn, Servers!Rests
  <2> QED
    BY <1>13, <2>1, <2>2, <2>3, <2>4, <2>5, Zenon DEF Servers!Leave
<1>14. ASSUME NEW k \in Servers!Conns, Servers!ProcessExits(k)
       PROVE  Owned(entry', replaced', pc', what', on')
  BY <1>14 DEF Servers!ProcessExits
<1>15. ASSUME NEW k \in Servers!Conns, Servers!ReadEnds(k)
       PROVE  Owned(entry', replaced', pc', what', on')
  BY <1>15 DEF Servers!ReadEnds
<1>16. ASSUME NEW k \in Servers!Conns, Servers!FailNext(k)
       PROVE  Owned(entry', replaced', pc', what', on')
  BY <1>16 DEF Servers!FailNext
<1>17. CASE UNCHANGED serverVars
  BY <1>17 DEF serverVars
<1> QED
  BY <1>1, <1>2, <1>3, <1>4, <1>5, <1>6, <1>7, <1>8, <1>9, <1>10, <1>11, <1>12, <1>13, <1>14,
     <1>15, <1>16, <1>17
     DEF Servers!Next

LEMMA ServersInit == Servers!Init => ServersIInv
<1> SUFFICES ASSUME Servers!Init
             PROVE  ServersIInv
  OBVIOUS
<1>1. ServerTypes
  BY ServersAssumption DEF Servers!Init, ServerTypes, ConnsMade, Kinds, Servers!NoEntry
<1>2. ConnTypes
  BY DEF Servers!Init, ConnTypes
<1>3. \A c \in Callers : AtConn(c)
  BY DEF Servers!Init, AtConn
<1>4. \A k \in Servers!Conns : ReaderHeld(k)
  BY DEF Servers!Init, ReaderHeld, Awaits
<1>5. Servers!ServersOwned
  BY DEF Servers!Init, Servers!ServersOwned
<1> QED
  BY <1>1, <1>2, <1>3, <1>4, <1>5 DEF ServersIInv

LEMMA ServersStep == ServersIInv /\ [Servers!Next]_serverVars => ServersIInv'
BY ServerTypesStep, ConnTypesStep, AtConnStep, ReaderStep, OwnedStep DEF ServersIInv

LEMMA ServersAsHeld ==
  ServersIInv => Servers!TypeOK /\ Servers!ServersOwned /\ Servers!PendingFailed
<1> SUFFICES ASSUME ServersIInv
             PROVE  Servers!TypeOK /\ Servers!PendingFailed
  BY DEF ServersIInv
<1>1. \A k \in Servers!Conns : Servers!Range(toFail[k]) \subseteq pending[k]
  <2> SUFFICES ASSUME NEW k \in Servers!Conns
               PROVE  Servers!Range(toFail[k]) \subseteq pending[k]
    OBVIOUS
  <2>1. toFail[k] \in Seq(Callers) /\ \A i \in 1 .. Len(toFail[k]) : toFail[k][i] \in pending[k]
    BY DEF ServersIInv, ConnTypes, ReaderHeld
  <2> QED
    BY <2>1 DEF Servers!Range
<1>2. Servers!TypeOK
  BY <1>1 DEF ServersIInv, ServerTypes, ConnTypes, ConnsMade, Kinds, Servers!TypeOK
<1>3. ASSUME NEW c \in Callers, pc[c] = "waiting", reader[on[c]] = "over", c \notin pending[on[c]]
      PROVE  ch[c] # "empty"
  <2>1. on[c] \in Servers!Conns
    BY <1>3, ServersAssumption DEF ServersIInv, ServerTypes, AtConn, Servers!Conns
  <2> QED
    BY <1>3, <2>1 DEF ServersIInv, ReaderHeld, Awaits
<1> QED
  BY <1>2, <1>3 DEF Servers!PendingFailed
-----------------------------------------------------------------------------
(* The settings of a user, and what a PUT of them is in the middle of. *)
Providers == [id : 1 .. ids, base : Bases, key : Endpoint!Keys]
FieldWrites ==
  [field : {"key"}, value : Endpoint!Keys] \cup [field : {"base", "model"}, value : Bases]
PutStates ==
  [at : {"merge", "list", "mirror", "first", "rest", "write"}, inc : Seq(Providers),
   merged : Seq(Providers), legacy : Endpoint!Keys, todo : SUBSET FieldWrites,
   then : {"", "first", "rest"}, minutes : {0, 1, Endpoint!Unset}, beside : SUBSET Tabs]
TabStates == [at : {"idle"}] \cup [at : {"open"}, form : Seq(Providers)] \cup PutStates

Distinct(s) == \A i, j \in 1 .. Len(s) : s[i].id = s[j].id => i = j
Apart(s, r) == \A i \in 1 .. Len(s), j \in 1 .. Len(r) : s[i].id # r[j].id
OneEach(q) ==
  /\ q.at = "write" => q.then \in {"first", "rest"}
  /\ q.at = "open" => Distinct(q.form)
  /\ q.at \notin {"idle", "open"} =>
       Distinct(q.inc) /\ Distinct(q.merged) /\ Apart(q.merged, q.inc)

EndpointTypes ==
  /\ providers \in Seq(Providers) /\ Distinct(providers)
  /\ own \in [Endpoint!Fields -> Endpoint!Keys \cup Bases \cup {"none"}]
  /\ own["key"] \in Endpoint!Keys
  /\ own["base"] \in Bases \cup {"none"} /\ own["model"] \in Bases \cup {"none"}
  /\ limit \in {0, 1, Endpoint!Unset}
  /\ ids \in 0 .. MaxIds /\ typed \in Endpoint!Keys /\ puts \in 0 .. MaxPuts
  /\ doing \in [Tabs -> TabStates]
  /\ \A t \in Tabs : OneEach(doing[t])

(* The endpoint and its key are those of a provider in the list. *)
InStep(list, o) ==
  /\ list # <<>> => o["base"] # "none"
  /\ Endpoint!Matches(list, o["base"]) # {} =>
       \/ o["key"] = Endpoint!KeyOf(list, o["base"])
       \/ o["key"] = 0 /\ list[1].key = 0
Mirrored(list) ==
  {[field |-> f, value |-> IF f = "key" THEN list[1].key ELSE list[1].base] : f \in Endpoint!Fields}

(* A request that runs alone goes on from what it stored... *)
PutHeld(t) ==
  LET q == doing[t] IN
  /\ q.at \in {"mirror", "first", "write"} => ~clean
  /\ q.at = "rest" /\ q.minutes = Endpoint!Unset => ~clean
  /\ q.at \in {"merge", "list", "mirror", "first", "write"} => q.minutes = Endpoint!Unset
  /\ q.at = "write" => q.todo # {}
  /\ Endpoint!Busy(t) /\ q.beside = {} =>
       /\ \A u \in Tabs \ {t} : ~Endpoint!Busy(u)
       /\ q.at \in {"mirror", "first", "write"} => providers = q.merged
       /\ q.at = "write" /\ q.then = "first" =>
            /\ Endpoint!Matches(providers, own["base"]) # {}
            /\ q.todo = {[field |-> "key", value |-> Endpoint!KeyOf(providers, own["base"])]}
       /\ q.at = "first" /\ Endpoint!Matches(providers, own["base"]) # {} =>
            own["key"] = Endpoint!KeyOf(providers, own["base"])
       /\ q.at = "write" /\ q.then = "rest" =>
            /\ providers # <<>> /\ q.todo \subseteq Mirrored(providers)
            /\ \A w \in Mirrored(providers) : w \in q.todo \/ own[w.field] = w.value
       /\ q.at = "rest" /\ q.minutes = Endpoint!Unset => InStep(providers, own)
(* ... and nothing is written while the settings are as such a one left them. *)
EndpointHeld ==
  /\ \A t \in Tabs : PutHeld(t)
  /\ clean => InStep(providers, own)

EndpointIInv == EndpointTypes /\ EndpointHeld /\ clean \in BOOLEAN
-----------------------------------------------------------------------------
(* Of any numbers one is the least. *)
LEMMA LeastOfNaturals ==
  ASSUME NEW T \in SUBSET Nat, T # {}
  PROVE  \E x \in T : \A y \in T : x <= y
<1> DEFINE R == OpToRel(<, Nat)
<1>1. \A x, y \in Nat : x < y => <<x, y>> \in R
  BY DEF OpToRel
<1>2. IsWellFoundedOn(R, Nat)
  BY NatLessThanWellFounded
<1> HIDE DEF R
<1>3. PICK x \in T : \A y \in T : ~(<<y, x>> \in R)
  BY <1>2, WFMin
<1>4. ASSUME NEW y \in T
      PROVE  x <= y
  <2>1. ~(y < x)
    BY <1>1, <1>3
  <2> QED
    BY <2>1
<1> QED
  BY <1>4

LEMMA OpenOrPut ==
  \A q \in TabStates :
    /\ q.at = "open" => q \in [at : {"open"}, form : Seq(Providers)]
    /\ q.at \notin {"idle", "open"} => q \in PutStates
BY DEF TabStates, PutStates

(* findLLMProvider finds a record of the list, refreshed takes one of it. *)
LEMMA FirstOfPlaces ==
  ASSUME NEW places \in SUBSET Nat, places # {}
  PROVE  /\ Endpoint!FirstOf(places) \in places
         /\ \A j \in places : Endpoint!FirstOf(places) <= j
BY LeastOfNaturals DEF Endpoint!FirstOf

LEMMA KeyIsOfTheList ==
  ASSUME NEW list \in Seq(Providers), NEW base, Endpoint!Matches(list, base) # {}
  PROVE  Endpoint!KeyOf(list, base) \in Endpoint!Keys
<1>1. Endpoint!Matches(list, base) \subseteq 1 .. Len(list)
  BY DEF Endpoint!Matches
<1>2. Endpoint!FirstOf(Endpoint!Matches(list, base)) \in 1 .. Len(list)
  BY <1>1, FirstOfPlaces
<1>3. list[Endpoint!FirstOf(Endpoint!Matches(list, base))] \in Providers
  BY <1>2
<1> QED
  BY <1>3 DEF Endpoint!KeyOf, Providers

LEMMA RefreshedWrites ==
  ASSUME NEW list \in Seq(Providers), NEW base
  PROVE  Endpoint!Refreshed(list, base) \subseteq FieldWrites
BY KeyIsOfTheList DEF Endpoint!Refreshed, FieldWrites

LEMMA MirroredWrites ==
  ASSUME NEW list \in Seq(Providers), list # <<>>
  PROVE  Mirrored(list) \subseteq FieldWrites
<1>1. list[1] \in Providers
  OBVIOUS
<1>2. list[1].key \in Endpoint!Keys /\ list[1].base \in Bases
  BY <1>1 DEF Providers
<1> QED
  BY <1>2 DEF Mirrored, FieldWrites, Endpoint!Fields

LEMMA KeptKey ==
  ASSUME EndpointTypes, NEW t \in Tabs, doing[t] \in PutStates, NEW r \in Providers
  PROVE  Endpoint!KeyFor(t, r) \in Endpoint!Keys
<1>1. CASE Endpoint!Found(r.id) = {}
  BY <1>1 DEF Endpoint!KeyFor, Providers, PutStates
<1>2. CASE Endpoint!Found(r.id) # {}
  <2> DEFINE i == CHOOSE i \in Endpoint!Found(r.id) : TRUE
  <2>1. i \in Endpoint!Found(r.id)
    BY <1>2
  <2>2. i \in 1 .. Len(providers)
    BY <2>1 DEF Endpoint!Found, EndpointTypes
  <2>3. providers[i].key \in Endpoint!Keys
    <3>1. providers \in Seq(Providers)
      BY DEF EndpointTypes
    <3> HIDE DEF i
    <3>2. providers[i] \in Providers
      BY <2>2, <3>1
    <3> QED
      BY <3>2 DEF Providers
  <2> QED
    BY <1>2, <2>3 DEF Endpoint!KeyFor, Providers
<1> QED
  BY <1>1, <1>2

LEMMA OneTabTypes ==
  ASSUME EndpointTypes, NEW t \in Tabs, NEW q \in TabStates, OneEach(q), UNCHANGED ids,
         doing' = [doing EXCEPT ![t] = q]
  PROVE  doing' \in [Tabs -> TabStates'] /\ \A u \in Tabs : OneEach(doing'[u])
<1>1. TabStates' = TabStates
  BY DEF TabStates, PutStates, Providers
<1> QED
  BY <1>1 DEF EndpointTypes

LEMMA ToWriteTypes ==
  ASSUME EndpointTypes, NEW t \in Tabs, NEW todo \in SUBSET FieldWrites,
         NEW then \in {"first", "rest"}, UNCHANGED ids, doing[t].at \notin {"idle", "open"},
         doing' = Endpoint!ToWrite(t, todo, then)
  PROVE  doing' \in [Tabs -> TabStates'] /\ \A u \in Tabs : OneEach(doing'[u])
<1> DEFINE q == [doing[t] EXCEPT !.at = IF todo = {} THEN then ELSE "write",
                                 !.todo = todo, !.then = then]
<1>1. doing[t] \in PutStates /\ OneEach(doing[t]) /\ doing \in [Tabs -> TabStates]
  BY OpenOrPut DEF EndpointTypes
<1>2. q \in PutStates /\ OneEach(q)
  BY <1>1 DEF PutStates, OneEach
<1>3. doing' = [doing EXCEPT ![t] = q]
  BY <1>1 DEF Endpoint!ToWrite, PutStates
<1>4. q \in TabStates
  BY <1>2 DEF TabStates
<1> HIDE DEF q
<1> QED
  BY <1>2, <1>3, <1>4, OneTabTypes

(* With more providers, what was a state of a tab is one. *)
LEMMA MoreStates ==
  ASSUME EndpointTypes, ids' \in {ids, ids + 1}
  PROVE  /\ Providers \subseteq Providers' /\ Seq(Providers) \subseteq Seq(Providers')
         /\ PutStates \subseteq PutStates' /\ TabStates \subseteq TabStates'
<1>1. ids \in Nat /\ 1 .. ids \subseteq 1 .. ids'
  BY EndpointAssumption DEF EndpointTypes
<1>2. Providers \subseteq Providers'
  BY <1>1 DEF Providers
<1>3. Seq(Providers) \subseteq Seq(Providers')
  BY <1>2
<1>4. PutStates \subseteq PutStates'
  <2>1. FieldWrites' = FieldWrites
    BY DEF FieldWrites
  <2> DEFINE S == Seq(Providers)
             R == Seq(Providers')
             W == FieldWrites
  <2> HIDE DEF S, R, W
  <2> QED
    BY <1>3, <2>1 DEF PutStates, S, R, W
<1>5. TabStates \subseteq TabStates'
  <2> DEFINE S == Seq(Providers)
             R == Seq(Providers')
             P == PutStates
             PN == PutStates'
  <2> HIDE DEF S, R, P, PN
  <2> QED
    BY <1>3, <1>4 DEF TabStates, S, R, P, PN
<1> QED
  BY <1>2, <1>3, <1>4, <1>5

(* A PUT is made of the form as it was loaded and of one record that is new or edited. *)
LEMMA PutTypes ==
  ASSUME EndpointTypes, NEW t \in Tabs, NEW put, put \in PutStates', OneEach(put),
         ids' \in {ids, ids + 1}, Endpoint!Put(t, put)
  PROVE  doing' \in [Tabs -> TabStates'] /\ \A u \in Tabs : OneEach(doing'[u])
<1>1. /\ doing \in [Tabs -> TabStates] /\ TabStates \subseteq TabStates'
      /\ put \in TabStates'
      /\ doing' = [Endpoint!Beside(t) EXCEPT ![t] = put]
  BY MoreStates DEF Endpoint!Put, EndpointTypes, TabStates
<1>2. ASSUME NEW u \in Tabs
      PROVE  doing'[u] \in TabStates' /\ OneEach(doing'[u])
  <2>1. CASE u = t
    BY <1>1, <2>1 DEF Endpoint!Beside
  <2>2. CASE u # t /\ ~Endpoint!Busy(u)
    BY <1>1, <2>2 DEF Endpoint!Beside, EndpointTypes
  <2>3. CASE u # t /\ Endpoint!Busy(u)
    <3> DEFINE q == [doing[u] EXCEPT !.beside = @ \cup {t}]
    <3>1. doing[u] \in PutStates /\ OneEach(doing[u])
      BY <2>3, OpenOrPut DEF EndpointTypes, Endpoint!Busy
    <3>2. q \in PutStates /\ OneEach(q)
      BY <3>1 DEF PutStates, OneEach
    <3>3. q \in TabStates
      BY <3>2 DEF TabStates
    <3>4. doing'[u] = q
      BY <1>1, <2>3 DEF Endpoint!Beside
    <3> HIDE DEF q
    <3> QED
      BY <1>1, <3>2, <3>3, <3>4
  <2> QED
    BY <2>1, <2>2, <2>3
<1>3. doing' = [u \in Tabs |-> doing'[u]]
  BY <1>1 DEF Endpoint!Beside
<1> QED
  BY <1>2, <1>3

LEMMA RequestTypes ==
  ASSUME EndpointTypes, ids' \in {ids, ids + 1}, NEW list \in Seq(Providers'), Distinct(list)
  PROVE  Endpoint!Request(list) \in PutStates' /\ OneEach(Endpoint!Request(list))
<1>1. own["key"] \in Endpoint!Keys
  BY DEF EndpointTypes
<1>2. <<>> \in Seq(Providers')
  OBVIOUS
<1> DEFINE S == Seq(Providers')
<1> HIDE DEF S
<1>3. list \in S /\ <<>> \in S
  BY <1>2 DEF S
<1>4. Endpoint!Request(list) \in PutStates'
  BY <1>1, <1>3 DEF Endpoint!Request, PutStates, S
<1>5. /\ Endpoint!Request(list).at = "merge" /\ Endpoint!Request(list).inc = list
      /\ Endpoint!Request(list).merged = <<>>
  BY DEF Endpoint!Request
<1>6. Len(<<>>) = 0
  OBVIOUS
<1> QED
  BY <1>4, <1>5, <1>6 DEF OneEach, Apart, Distinct

LEMMA EndpointTypesStep == EndpointTypes /\ [Endpoint!Next]_endpointVars => EndpointTypes'
<1> SUFFICES ASSUME EndpointTypes, [Endpoint!Next]_endpointVars
             PROVE  EndpointTypes'
  OBVIOUS
<1>0. /\ doing \in [Tabs -> TabStates] /\ \A t \in Tabs : OneEach(doing[t])
      /\ \A t \in Tabs : doing[t].at \notin {"idle", "open"} => doing[t] \in PutStates
      /\ providers \in Seq(Providers) /\ Distinct(providers)
      /\ ids \in 0 .. MaxIds /\ typed \in Endpoint!Keys /\ puts \in 0 .. MaxPuts
      /\ own["base"] \in Bases \cup {"none"}
  BY OpenOrPut DEF EndpointTypes
<1>1. ASSUME UNCHANGED <<providers, own, limit, ids, typed, puts>>,
             doing' \in [Tabs -> TabStates'] /\ \A t \in Tabs : OneEach(doing'[t])
      PROVE  EndpointTypes'
  BY <1>1 DEF EndpointTypes, Providers
<1>2. ASSUME NEW t \in Tabs, NEW q \in TabStates, OneEach(q),
             doing' = [doing EXCEPT ![t] = q],
             UNCHANGED <<providers, own, limit, ids, typed, puts>>
      PROVE  EndpointTypes'
  BY <1>1, <1>2, OneTabTypes
<1>3. ASSUME NEW t \in Tabs, Endpoint!Load(t)
      PROVE  EndpointTypes'
  <2> DEFINE form == [i \in DOMAIN providers |-> [providers[i] EXCEPT !.key = 0]]
             q == [at |-> "open", form |-> form]
  <2>1. \A r \in Providers : [r EXCEPT !.key = 0] \in Providers /\ [r EXCEPT !.key = 0].id = r.id
    BY EndpointAssumption DEF Providers, Endpoint!Keys
  <2>2. form \in Seq(Providers) /\ Len(form) = Len(providers)
    BY <1>0, <2>1
  <2>3. Distinct(form)
    BY <1>0, <2>1, <2>2 DEF Distinct
  <2> HIDE DEF form
  <2>4. q \in TabStates /\ OneEach(q)
    BY <2>2, <2>3 DEF TabStates, OneEach
  <2>5. /\ doing' = [doing EXCEPT ![t] = q]
        /\ UNCHANGED <<providers, own, limit, ids, typed, puts>>
    BY <1>3 DEF Endpoint!Load, Endpoint!listVars, form
  <2> HIDE DEF q
  <2> QED
    BY <1>2, <2>4, <2>5
<1>4. ASSUME NEW t \in Tabs, Endpoint!Merge(t)
      PROVE  EndpointTypes'
  <2>0. /\ doing[t] \in PutStates /\ OneEach(doing[t]) /\ doing[t].at = "merge"
        /\ UNCHANGED <<providers, own, limit, ids, typed, puts>>
    BY <1>0, <1>4 DEF Endpoint!Merge, Endpoint!listVars
  <2>1. CASE doing[t].inc = <<>>
    <3> DEFINE q == [doing[t] EXCEPT !.at = "list"]
    <3>1. q \in PutStates /\ OneEach(q)
      BY <2>0 DEF PutStates, OneEach
    <3>2. q \in TabStates /\ doing' = [doing EXCEPT ![t] = q]
      BY <1>0, <1>4, <2>1, <3>1 DEF Endpoint!Merge, TabStates
    <3> HIDE DEF q
    <3> QED
      BY <1>2, <2>0, <3>1, <3>2
  <2>2. CASE doing[t].inc # <<>>
    <3> DEFINE inc == doing[t].inc
               r == Endpoint!Taken(t, Head(inc))
               m == Append(doing[t].merged, r)
               q == [doing[t] EXCEPT !.inc = Tail(inc), !.merged = m]
    <3>0. inc \in Seq(Providers) /\ doing[t].merged \in Seq(Providers)
      BY <2>0 DEF PutStates
    <3>1. Head(inc) \in Providers /\ Tail(inc) \in Seq(Providers)
      BY <2>2, <3>0
    <3>2. Endpoint!KeyFor(t, Head(inc)) \in Endpoint!Keys
      BY <2>0, <3>1, KeptKey
    <3>3. r \in Providers /\ r.id = inc[1].id
      BY <2>2, <3>0, <3>1, <3>2 DEF Providers, Endpoint!Taken
    <3>4. m \in Seq(Providers)
      BY <3>0, <3>3
    <3>5. Distinct(inc) /\ Distinct(doing[t].merged) /\ Apart(doing[t].merged, inc)
      BY <2>0 DEF OneEach
    <3>6. Distinct(Tail(inc)) /\ Distinct(m) /\ Apart(m, Tail(inc))
      <4> DEFINE old == doing[t].merged
      <4>1. /\ Len(m) = Len(old) + 1 /\ m[Len(m)] = r
            /\ \A i \in 1 .. Len(old) : i \in 1 .. Len(m) /\ m[i] = old[i]
            /\ \A i \in 1 .. Len(m) : i # Len(m) => i \in 1 .. Len(old)
        BY <3>0, <3>3
      <4>2. /\ Len(Tail(inc)) = Len(inc) - 1
            /\ \A i \in 1 .. Len(Tail(inc)) : i + 1 \in 1 .. Len(inc) /\ Tail(inc)[i] = inc[i + 1]
        BY <2>2, <3>0
      <4>3. 1 \in 1 .. Len(inc) /\ Len(inc) \in Nat /\ Len(old) \in Nat
        BY <2>2, <3>0
      <4> HIDE DEF inc, m, old, r
      <4>4. Distinct(Tail(inc))
        BY <3>5, <4>2, <4>3 DEF Distinct
      <4>5. Distinct(m)
        <5>1. \A i \in 1 .. Len(old) : old[i].id # r.id
          BY <3>3, <3>5, <4>3 DEF Apart, old
        <5>2. \A i, j \in 1 .. Len(old) : old[i].id = old[j].id => i = j
          BY <3>5 DEF Distinct, old
        <5> QED
          BY <4>1, <5>1, <5>2 DEF Distinct
      <4>6. Apart(m, Tail(inc))
        <5> SUFFICES ASSUME NEW i \in 1 .. Len(m), NEW j \in 1 .. Len(Tail(inc))
                     PROVE  m[i].id # Tail(inc)[j].id
          BY DEF Apart
        <5>1. j + 1 \in 1 .. Len(inc) /\ j + 1 # 1 /\ Tail(inc)[j] = inc[j + 1]
          BY <4>2, <4>3
        <5>2. r.id # inc[j + 1].id
          BY <3>3, <3>5, <4>3, <5>1 DEF Distinct
        <5>3. \A k \in 1 .. Len(old) : old[k].id # inc[j + 1].id
          BY <3>5, <5>1 DEF Apart, old
        <5> QED
          BY <4>1, <5>1, <5>2, <5>3
      <4> QED
        BY <4>4, <4>5, <4>6
    <3>7. doing' = [doing EXCEPT ![t] = q]
      BY <1>0, <1>4, <2>2 DEF Endpoint!Merge
    <3>8. q \in PutStates
      <4> HIDE DEF inc, m
      <4> QED
        BY <2>0, <3>1, <3>4 DEF PutStates
    <3>9. q \in TabStates /\ OneEach(q)
      <4> HIDE DEF m
      <4> QED
        BY <2>0, <3>6, <3>8 DEF TabStates, OneEach, PutStates
    <3> HIDE DEF q
    <3> QED
      BY <1>2, <2>0, <3>7, <3>9
  <2> QED
    BY <2>1, <2>2
<1>5. ASSUME NEW t \in Tabs, Endpoint!StoreList(t)
      PROVE  EndpointTypes'
  <2> DEFINE q == [doing[t] EXCEPT !.at = "mirror"]
  <2>1. /\ doing[t] \in PutStates /\ OneEach(doing[t]) /\ doing[t].at = "list"
        /\ doing' = [doing EXCEPT ![t] = q] /\ providers' = doing[t].merged
        /\ UNCHANGED <<own, limit, ids, typed, puts>>
    BY <1>0, <1>5 DEF Endpoint!StoreList
  <2>2. q \in PutStates /\ OneEach(q)
    BY <2>1 DEF PutStates, OneEach
  <2>3. q \in TabStates
    BY <2>2 DEF TabStates
  <2> HIDE DEF q
  <2>4. doing' \in [Tabs -> TabStates'] /\ \A u \in Tabs : OneEach(doing'[u])
    BY <2>1, <2>2, <2>3, OneTabTypes
  <2>5. doing[t].merged \in Seq(Providers) /\ Distinct(doing[t].merged)
    BY <2>1 DEF PutStates, OneEach
  <2> QED
    BY <2>1, <2>4, <2>5 DEF EndpointTypes, Providers
<1>6. ASSUME NEW t \in Tabs, Endpoint!Mirror(t)
      PROVE  EndpointTypes'
  <2>1. doing[t].merged \in Seq(Providers)
    BY <1>0, <1>6 DEF Endpoint!Mirror, PutStates
  <2>2. /\ doing' = Endpoint!ToWrite(t, Endpoint!Refreshed(doing[t].merged, own["base"]), "first")
        /\ UNCHANGED <<providers, own, limit, ids, typed, puts>>
        /\ doing[t].at \notin {"idle", "open"}
    BY <1>6 DEF Endpoint!Mirror, Endpoint!listVars
  <2>3. Endpoint!Refreshed(doing[t].merged, own["base"]) \subseteq FieldWrites
    BY <2>1, RefreshedWrites
  <2> QED
    BY <1>1, <2>2, <2>3, ToWriteTypes
<1>7. ASSUME NEW t \in Tabs, Endpoint!MirrorFirst(t)
      PROVE  EndpointTypes'
  <2>1. doing[t].merged \in Seq(Providers)
    BY <1>0, <1>7 DEF Endpoint!MirrorFirst, PutStates
  <2>2. /\ UNCHANGED <<providers, own, limit, ids, typed, puts>>
        /\ doing[t].at \notin {"idle", "open"}
        /\ doing' = Endpoint!ToWrite(t,
             IF doing[t].merged = <<>> \/ own["base"] # "none" THEN {}
             ELSE Mirrored(doing[t].merged), "rest")
    BY <1>7 DEF Endpoint!MirrorFirst, Endpoint!listVars, Mirrored, Endpoint!None
  <2>3. doing[t].merged # <<>> => Mirrored(doing[t].merged) \subseteq FieldWrites
    BY <2>1, MirroredWrites
  <2> QED
    BY <1>1, <2>2, <2>3, ToWriteTypes
<1>8. ASSUME NEW t \in Tabs, Endpoint!Write(t)
      PROVE  EndpointTypes'
  <2>1. PICK w \in doing[t].todo :
          /\ own' = [own EXCEPT ![w.field] = w.value]
          /\ doing' = Endpoint!ToWrite(t, doing[t].todo \ {w}, doing[t].then)
    BY <1>8 DEF Endpoint!Write
  <2>2. /\ doing[t].at = "write" /\ UNCHANGED <<providers, limit, ids, typed, puts>>
        /\ doing[t].todo \subseteq FieldWrites
    BY <1>0, <1>8 DEF Endpoint!Write, PutStates
  <2>3. w \in FieldWrites
    BY <2>1, <2>2
  <2>4. doing[t].then \in {"first", "rest"}
    BY <1>0, <2>2 DEF OneEach
  <2>5. doing' \in [Tabs -> TabStates'] /\ \A u \in Tabs : OneEach(doing'[u])
    <3>1. doing[t].todo \ {w} \in SUBSET FieldWrites
      BY <2>2
    <3> QED
      BY <2>1, <2>2, <2>4, <3>1, ToWriteTypes
  <2>6. /\ w.field \in Endpoint!Fields
        /\ w.field = "key" => w.value \in Endpoint!Keys
        /\ w.field # "key" => w.value \in Bases
    BY <2>3 DEF FieldWrites, Endpoint!Fields
  <2> HIDE DEF FieldWrites
  <2>7. /\ own' \in [Endpoint!Fields -> Endpoint!Keys \cup Bases \cup {"none"}]
        /\ own'["key"] \in Endpoint!Keys
        /\ own'["base"] \in Bases \cup {"none"} /\ own'["model"] \in Bases \cup {"none"}
    BY <2>1, <2>6 DEF EndpointTypes, Endpoint!Fields
  <2> QED
    BY <2>2, <2>5, <2>7 DEF EndpointTypes, Providers
<1>9. ASSUME NEW t \in Tabs, Endpoint!StoreRest(t) \/ Endpoint!Fails(t)
      PROVE  EndpointTypes'
  <2>1. [at |-> "idle"] \in TabStates /\ OneEach([at |-> "idle"])
    BY DEF TabStates, OneEach
  <2>2. doing' = [doing EXCEPT ![t] = [at |-> "idle"]]
    BY <1>9 DEF Endpoint!StoreRest, Endpoint!Fails, Endpoint!NoList
  <2>3. UNCHANGED <<providers, own, ids, typed, puts>> /\ limit' \in {0, 1, Endpoint!Unset}
    <3>1. /\ UNCHANGED <<providers, own, ids, typed, puts>>
          /\ \/ UNCHANGED limit
             \/ doing[t].at = "rest" /\ limit' = Endpoint!Stored(doing[t].minutes)
      BY <1>9, Zenon DEF Endpoint!StoreRest, Endpoint!Fails, Endpoint!listVars
    <3>2. doing[t].at = "rest" => doing[t].minutes \in {0, 1, Endpoint!Unset}
      BY <1>0 DEF PutStates
    <3> QED
      BY <3>1, <3>2 DEF EndpointTypes, Endpoint!Stored
  <2> QED
    BY <2>1, <2>2, <2>3, OneTabTypes DEF EndpointTypes, Providers
<1>10. ASSUME NEW t \in Tabs, NEW list \in Seq(Providers'), Distinct(list), doing[t].at = "open",
              ids' \in {ids, ids + 1} \cap (0 .. MaxIds), typed' \in Endpoint!Keys,
              Endpoint!Put(t, Endpoint!Request(list))
       PROVE  EndpointTypes'
  <2>1. doing' \in [Tabs -> TabStates'] /\ \A u \in Tabs : OneEach(doing'[u])
    <3>1. /\ Endpoint!Request(list) \in PutStates' /\ OneEach(Endpoint!Request(list))
          /\ ids' \in {ids, ids + 1}
      BY <1>10, RequestTypes
    <3> QED
      BY <1>10, <3>1, PutTypes
  <2>2. UNCHANGED <<providers, own, limit>> /\ puts' \in 0 .. MaxPuts
    BY <1>0, <1>10, EndpointAssumption DEF Endpoint!Put, Endpoint!listVars
  <2>3. providers' \in Seq(Providers')
    BY <1>0, <1>10, <2>2, MoreStates
  <2> QED
    BY <1>0, <1>10, <2>1, <2>2, <2>3 DEF EndpointTypes
<1>11. ASSUME NEW t \in Tabs, doing[t].at = "open"
       PROVE  doing[t].form \in Seq(Providers) /\ Distinct(doing[t].form)
  BY <1>0, <1>11, OpenOrPut DEF OneEach
<1>12. ASSUME NEW t \in Tabs, NEW base \in Bases, NEW key \in Endpoint!Keys,
              Endpoint!SaveAdded(t, base, key)
       PROVE  EndpointTypes'
  <2> DEFINE form == doing[t].form
             r == [id |-> ids + 1, base |-> base, key |-> key]
             list == Append(form, r)
  <2>1. /\ doing[t].at = "open" /\ ids < MaxIds /\ ids' = ids + 1 /\ typed' \in Endpoint!Keys
        /\ Endpoint!Put(t, Endpoint!Request(list))
    BY <1>0, <1>12 DEF Endpoint!SaveAdded, Endpoint!Typed
  <2>2. form \in Seq(Providers) /\ Distinct(form)
    BY <1>11, <2>1
  <2>3. Seq(Providers) \subseteq Seq(Providers') /\ Providers \subseteq Providers'
    BY <2>1, MoreStates
  <2>4. r \in Providers' /\ r.id = ids + 1
    BY <1>0, <2>1, EndpointAssumption DEF Providers
  <2>5. \A x \in Providers : x.id # ids + 1
    BY <1>0, EndpointAssumption DEF Providers
  <2> HIDE DEF r
  <2>6. list \in Seq(Providers')
    <3>1. form \in Seq(Providers')
      BY <2>2, <2>3
    <3> HIDE DEF form
    <3> QED
      BY <2>4, <3>1
  <2>7. Distinct(list)
    <3>1. /\ Len(list) = Len(form) + 1 /\ list[Len(list)] = r /\ Len(form) \in Nat
          /\ \A i \in 1 .. Len(form) : list[i] = form[i] /\ form[i] \in Providers
      BY <2>2
    <3> HIDE DEF list, form
    <3>2. \A i \in 1 .. Len(form) : form[i].id # r.id
      BY <2>4, <2>5, <3>1
    <3>3. \A i, j \in 1 .. Len(form) : form[i].id = form[j].id => i = j
      BY <2>2 DEF Distinct
    <3> QED
      BY <3>1, <3>2, <3>3 DEF Distinct
  <2>8. ids' \in {ids, ids + 1} \cap (0 .. MaxIds)
    BY <1>0, <2>1, EndpointAssumption
  <2> HIDE DEF list
  <2> QED
    BY <1>10, <2>1, <2>6, <2>7, <2>8
<1>13. ASSUME NEW list \in Seq(Providers), UNCHANGED ids
       PROVE  list \in Seq(Providers')
  BY <1>13 DEF Providers
<1>14. ASSUME NEW t \in Tabs, NEW i \in 1 .. MaxIds, NEW base \in Bases,
              NEW key \in Endpoint!Keys, Endpoint!SaveEdited(t, i, base, key)
       PROVE  EndpointTypes'
  <2> DEFINE form == doing[t].form
             list == [form EXCEPT ![i].base = base, ![i].key = key]
  <2>1. /\ doing[t].at = "open" /\ i \in DOMAIN form /\ ids' = ids /\ typed' \in Endpoint!Keys
        /\ Endpoint!Put(t, Endpoint!Request(list))
    BY <1>0, <1>14 DEF Endpoint!SaveEdited, Endpoint!Typed
  <2>2. form \in Seq(Providers) /\ Distinct(form)
    BY <1>11, <2>1
  <2>3. list \in Seq(Providers) /\ Distinct(list)
    <3> DEFINE r == [form[i] EXCEPT !.base = base, !.key = key]
    <3>1. i \in 1 .. Len(form) /\ form[i] \in Providers
      BY <2>1, <2>2
    <3>2. r \in Providers /\ r.id = form[i].id
      BY <3>1 DEF Providers
    <3>3. list = [form EXCEPT ![i] = r]
      BY <3>1 DEF Providers
    <3> HIDE DEF r, list
    <3>4. list \in Seq(Providers) /\ Len(list) = Len(form)
      BY <2>2, <3>1, <3>2, <3>3
    <3>5. \A j \in 1 .. Len(form) : list[j].id = form[j].id
      BY <2>2, <3>1, <3>2, <3>3
    <3> QED
      BY <2>2, <3>4, <3>5 DEF Distinct
  <2> HIDE DEF list
  <2>4. list \in Seq(Providers') /\ ids' \in {ids, ids + 1} \cap (0 .. MaxIds)
    BY <1>0, <1>13, <2>1, <2>3
  <2> QED
    BY <1>10, <2>1, <2>3, <2>4
<1>15. ASSUME NEW t \in Tabs, NEW i \in 1 .. MaxIds, Endpoint!SaveDeleted(t, i)
       PROVE  EndpointTypes'
  <2> DEFINE form == doing[t].form
             list == Endpoint!Without(form, i)
  <2>1. /\ doing[t].at = "open" /\ i \in DOMAIN form /\ ids' = ids /\ typed' \in Endpoint!Keys
        /\ Endpoint!Put(t, Endpoint!Request(list))
    BY <1>0, <1>15 DEF Endpoint!SaveDeleted
  <2>2. form \in Seq(Providers) /\ Distinct(form)
    BY <1>11, <2>1
  <2>3. list \in Seq(Providers) /\ Distinct(list)
    <3>1. i \in 1 .. Len(form) /\ Len(form) \in Nat
      BY <2>1, <2>2
    <3>2. /\ list \in Seq(Providers) /\ Len(list) = Len(form) - 1
          /\ \A j \in 1 .. Len(list) : list[j] = form[IF j < i THEN j ELSE j + 1]
      BY <2>2, <3>1 DEF Endpoint!Without
    <3> HIDE DEF list, form
    <3>3. ASSUME NEW j \in 1 .. Len(list), NEW k \in 1 .. Len(list), list[j].id = list[k].id
          PROVE  j = k
      <4>1. (IF j < i THEN j ELSE j + 1) = (IF k < i THEN k ELSE k + 1)
        BY <2>2, <3>1, <3>2, <3>3 DEF Distinct
      <4> QED
        BY <3>1, <3>2, <4>1
    <3> QED
      BY <3>2, <3>3 DEF Distinct
  <2> HIDE DEF list
  <2>4. list \in Seq(Providers') /\ ids' \in {ids, ids + 1} \cap (0 .. MaxIds)
    BY <1>0, <1>13, <2>1, <2>3
  <2> QED
    BY <1>10, <2>1, <2>3, <2>4
<1>16. ASSUME NEW t \in Tabs, NEW minutes \in {0, 1}, Endpoint!SaveRest(t, minutes)
       PROVE  EndpointTypes'
  <2> DEFINE none == Endpoint!Request(<<>>)
             q == [none EXCEPT !.at = "rest", !.minutes = minutes]
  <2>1. /\ Endpoint!Put(t, q) /\ UNCHANGED <<ids, typed>>
    BY <1>16 DEF Endpoint!SaveRest
  <2>2. <<>> \in Seq(Providers') /\ Len(<<>>) = 0
    OBVIOUS
  <2>3. none \in PutStates' /\ OneEach(none)
    <3>1. Distinct(<<>>)
      BY <2>2 DEF Distinct
    <3> QED
      BY <2>1, <2>2, <3>1, RequestTypes
  <2>4. none.at = "merge"
    BY DEF Endpoint!Request
  <2> HIDE DEF none
  <2>5. q \in PutStates' /\ OneEach(q)
    BY <2>3, <2>4 DEF PutStates, OneEach
  <2> HIDE DEF q
  <2>6. doing' \in [Tabs -> TabStates'] /\ \A u \in Tabs : OneEach(doing'[u])
    BY <2>1, <2>5, PutTypes
  <2>7. UNCHANGED <<providers, own, limit>> /\ puts' \in 0 .. MaxPuts
    BY <1>0, <2>1, EndpointAssumption DEF Endpoint!Put, Endpoint!listVars
  <2> QED
    BY <2>1, <2>6, <2>7 DEF EndpointTypes, Providers
<1>17. CASE UNCHANGED endpointVars
  <2>1. TabStates' = TabStates
    BY <1>17 DEF endpointVars, TabStates, PutStates, Providers
  <2> QED
    BY <1>17, <2>1 DEF endpointVars, EndpointTypes, Providers
<1> QED
  BY <1>3, <1>4, <1>5, <1>6, <1>7, <1>8, <1>9, <1>12, <1>14, <1>15, <1>16, <1>17
     DEF Endpoint!Next

(* A request whose list was taken whole leaves the endpoint and key of its first provider. *)
LEMMA FirstIsInStep ==
  ASSUME NEW list \in Seq(Providers), list # <<>>, NEW o, o["base"] = list[1].base,
         o["key"] = list[1].key
  PROVE  InStep(list, o)
<1>1. 1 \in 1 .. Len(list) /\ list[1] \in Providers
  OBVIOUS
<1>2. list[1].base # "none" /\ list[1].key \in Nat
  BY <1>1, EndpointAssumption DEF Providers, Endpoint!Keys
<1>3. ASSUME list[1].key # 0
      PROVE  Endpoint!KeyOf(list, list[1].base) = list[1].key
  <2> DEFINE S == Endpoint!Matches(list, list[1].base)
  <2>1. 1 \in S /\ S \subseteq 1 .. Len(list)
    BY <1>1, <1>3 DEF Endpoint!Matches
  <2>2. S \in SUBSET Nat /\ S # {} /\ 0 \notin S
    BY <2>1
  <2> HIDE DEF S
  <2>3. Endpoint!FirstOf(S) \in S /\ Endpoint!FirstOf(S) <= 1
    BY <2>1, <2>2, FirstOfPlaces
  <2>4. \A x \in Nat : x # 0 /\ x <= 1 => x = 1
    OBVIOUS
  <2>5. Endpoint!FirstOf(S) = 1
    BY <2>2, <2>3, <2>4, Zenon
  <2> QED
    BY <2>5 DEF Endpoint!KeyOf, S
<1> QED
  BY <1>2, <1>3 DEF InStep

LEMMA EmptyIsInStep == \A o : InStep(<<>>, o)
<1>1. \A base : Endpoint!Matches(<<>>, base) = {}
  BY DEF Endpoint!Matches
<1> QED
  BY <1>1 DEF InStep

(* While one request takes a step, those of the other tabs have it beside them. *)
LEMMA OthersHeld ==
  ASSUME EndpointHeld, NEW t \in Tabs, Endpoint!Busy(t),
         \A u \in Tabs \ {t} : doing'[u] = doing[u],
         clean' => clean \/ doing[t].beside = {}
  PROVE  \A u \in Tabs \ {t} : PutHeld(u)'
<1> SUFFICES ASSUME NEW u \in Tabs \ {t}
             PROVE  PutHeld(u)'
  OBVIOUS
<1>1. PutHeld(u) /\ PutHeld(t) /\ doing'[u] = doing[u]
  BY DEF EndpointHeld
<1>2. Endpoint!Busy(u) => doing[u].beside # {} /\ doing[t].beside # {}
  BY <1>1 DEF PutHeld
<1>3. Endpoint!Busy(u)' => doing[u].beside # {} /\ doing[t].beside # {}
  BY <1>1, <1>2 DEF Endpoint!Busy
<1> QED
  BY <1>1, <1>3 DEF PutHeld, Endpoint!Busy

(* It goes on alone as it did. *)
LEMMA StillAlone ==
  ASSUME EndpointHeld, NEW t \in Tabs, Endpoint!Busy(t), doing[t].beside = {},
         \A u \in Tabs \ {t} : doing'[u] = doing[u]
  PROVE  \A u \in Tabs \ {t} : ~Endpoint!Busy(u)'
BY DEF EndpointHeld, PutHeld, Endpoint!Busy

LEMMA EndpointHeldStep ==
  EndpointTypes /\ EndpointHeld /\ [Endpoint!Next]_endpointVars => EndpointHeld'
<1> SUFFICES ASSUME EndpointTypes, EndpointHeld, [Endpoint!Next]_endpointVars
             PROVE  EndpointHeld'
  OBVIOUS
<1>0. /\ doing \in [Tabs -> TabStates] /\ \A t \in Tabs : OneEach(doing[t])
      /\ \A t \in Tabs : doing[t].at \notin {"idle", "open"} => doing[t] \in PutStates
      /\ providers \in Seq(Providers)
      /\ own["base"] \in Bases \cup {"none"}
      /\ \A t \in Tabs : PutHeld(t)
      /\ clean => InStep(providers, own)
  BY OpenOrPut DEF EndpointTypes, EndpointHeld
<1>1. ASSUME NEW t \in Tabs, Endpoint!Load(t)
      PROVE  EndpointHeld'
  <2>1. /\ doing'[t].at = "open" /\ \A u \in Tabs \ {t} : doing'[u] = doing[u]
        /\ ~Endpoint!Busy(t)
        /\ UNCHANGED <<providers, own, clean>>
    BY <1>0, <1>1 DEF Endpoint!Load, Endpoint!listVars
  <2>2. \A u \in Tabs : Endpoint!Busy(u)' => u # t /\ Endpoint!Busy(u)
    BY <2>1 DEF Endpoint!Busy
  <2>3. \A u \in Tabs : PutHeld(u)'
    BY <1>0, <2>1, <2>2 DEF PutHeld
  <2> QED
    BY <1>0, <2>1, <2>3 DEF EndpointHeld
<1>2. ASSUME NEW t \in Tabs, NEW put, Endpoint!Put(t, put), doing[t].at = "open",
             put.at \in {"merge", "rest"}, put.minutes \in {0, 1, Endpoint!Unset},
             put.at = "merge" <=> put.minutes = Endpoint!Unset,
             put.beside = {u \in Tabs : Endpoint!Busy(u)}
      PROVE  EndpointHeld'
  <2>1. /\ doing' = [Endpoint!Beside(t) EXCEPT ![t] = put]
        /\ UNCHANGED <<providers, own, clean>>
    BY <1>2 DEF Endpoint!Put, Endpoint!listVars
  <2>2. \A u \in Tabs \ {t} : ~Endpoint!Busy(u) => doing'[u] = doing[u]
    BY <2>1 DEF Endpoint!Beside
  <2>3. \A u \in Tabs \ {t} : Endpoint!Busy(u) =>
          doing'[u] = [doing[u] EXCEPT !.beside = @ \cup {t}]
    BY <2>1 DEF Endpoint!Beside
  <2>4. \A u \in Tabs \ {t} : Endpoint!Busy(u)' <=> Endpoint!Busy(u)
    BY <1>0, <2>2, <2>3 DEF Endpoint!Busy, PutStates
  <2>5. doing'[t] = put
    BY <2>1 DEF Endpoint!Beside
  <2>6. PutHeld(t)'
    BY <1>2, <2>4, <2>5 DEF PutHeld
  <2>7. ASSUME NEW u \in Tabs \ {t}
        PROVE  PutHeld(u)'
    <3>1. CASE ~Endpoint!Busy(u)
      BY <1>0, <2>1, <2>2, <2>4, <3>1 DEF PutHeld, Endpoint!Busy
    <3>2. CASE Endpoint!Busy(u)
      <4>1. doing[u] \in PutStates
        BY <1>0, <3>2 DEF Endpoint!Busy
      <4>2. /\ doing'[u].at = doing[u].at /\ doing'[u].minutes = doing[u].minutes
            /\ doing'[u].todo = doing[u].todo /\ t \in doing'[u].beside
        BY <2>3, <3>2, <4>1 DEF PutStates
      <4> QED
        BY <1>0, <2>1, <4>2 DEF PutHeld
    <3> QED
      BY <3>1, <3>2
  <2> QED
    BY <1>0, <2>1, <2>6, <2>7 DEF EndpointHeld
<1>3. ASSUME NEW t \in Tabs, NEW q, Endpoint!Busy(t), doing' = [doing EXCEPT ![t] = q],
             clean' => (clean \/ doing[t].beside = {}) /\ InStep(providers, own)',
             PutHeld(t)'
      PROVE  EndpointHeld'
  <2>1. \A u \in Tabs \ {t} : doing'[u] = doing[u]
    BY <1>0, <1>3
  <2>2. \A u \in Tabs \ {t} : PutHeld(u)'
    BY <1>3, <2>1, OthersHeld
  <2> QED
    BY <1>3, <2>2 DEF EndpointHeld
<1>4. ASSUME NEW t \in Tabs, Endpoint!Merge(t)
      PROVE  EndpointHeld'
  <2> DEFINE q == doing'[t]
  <2>1. /\ doing[t] \in PutStates /\ doing[t].at = "merge" /\ Endpoint!Busy(t)
        /\ UNCHANGED <<providers, own, clean>>
    BY <1>0, <1>4 DEF Endpoint!Merge, Endpoint!listVars, Endpoint!Busy
  <2>2. /\ doing' = [doing EXCEPT ![t] = q]
        /\ q.at \in {"merge", "list"} /\ q.minutes = doing[t].minutes
        /\ q.beside = doing[t].beside
    <3>1. CASE doing[t].inc = <<>>
      BY <1>0, <1>4, <2>1, <3>1 DEF Endpoint!Merge, PutStates
    <3>2. CASE doing[t].inc # <<>>
      BY <1>0, <1>4, <2>1, <3>2 DEF Endpoint!Merge, PutStates
    <3> QED
      BY <3>1, <3>2
  <2>3. \A u \in Tabs \ {t} : doing'[u] = doing[u]
    BY <1>0, <2>2
  <2>4. q.beside = {} => \A u \in Tabs \ {t} : ~Endpoint!Busy(u)'
    BY <2>1, <2>2, <2>3, StillAlone
  <2>5. PutHeld(t)'
    BY <1>0, <2>1, <2>2, <2>4 DEF PutHeld
  <2> HIDE DEF q
  <2> QED
    BY <1>0, <1>3, <2>1, <2>2, <2>5
<1>5. ASSUME NEW t \in Tabs, Endpoint!StoreList(t)
      PROVE  EndpointHeld'
  <2> DEFINE q == [doing[t] EXCEPT !.at = "mirror"]
  <2>1. /\ doing[t] \in PutStates /\ doing[t].at = "list" /\ Endpoint!Busy(t)
        /\ doing' = [doing EXCEPT ![t] = q] /\ providers' = doing[t].merged
        /\ UNCHANGED own /\ ~clean'
    BY <1>0, <1>5 DEF Endpoint!StoreList, Endpoint!Busy
  <2>2. /\ q.at = "mirror" /\ q.minutes = doing[t].minutes /\ q.beside = doing[t].beside
        /\ q.merged = doing[t].merged /\ doing'[t] = q
    BY <1>0, <2>1 DEF PutStates
  <2>3. \A u \in Tabs \ {t} : doing'[u] = doing[u]
    BY <1>0, <2>1
  <2> HIDE DEF q
  <2>4. q.beside = {} => \A u \in Tabs \ {t} : ~Endpoint!Busy(u)'
    BY <2>1, <2>2, <2>3, StillAlone
  <2>5. PutHeld(t)'
    BY <1>0, <2>1, <2>2, <2>4 DEF PutHeld
  <2> QED
    BY <1>3, <2>1, <2>5
<1>6. ASSUME NEW t \in Tabs, NEW todo, NEW then \in {"first", "rest"},
             Endpoint!Busy(t), doing' = Endpoint!ToWrite(t, todo, then)
      PROVE  \E q : /\ doing' = [doing EXCEPT ![t] = q] /\ doing'[t] = q
                    /\ q.at = IF todo = {} THEN then ELSE "write"
                    /\ q.todo = todo /\ q.then = then /\ q.minutes = doing[t].minutes
                    /\ q.beside = doing[t].beside /\ q.merged = doing[t].merged
                    /\ q.beside = {} => \A u \in Tabs \ {t} : ~Endpoint!Busy(u)'
  <2> DEFINE q == [doing[t] EXCEPT !.at = IF todo = {} THEN then ELSE "write",
                                   !.todo = todo, !.then = then]
  <2>1. doing[t] \in PutStates
    BY <1>0, <1>6 DEF Endpoint!Busy
  <2>2. doing' = [doing EXCEPT ![t] = q]
    BY <1>0, <1>6, <2>1 DEF Endpoint!ToWrite, PutStates
  <2>3. /\ q.at = IF todo = {} THEN then ELSE "write"
        /\ q.todo = todo /\ q.then = then /\ q.minutes = doing[t].minutes
        /\ q.beside = doing[t].beside /\ q.merged = doing[t].merged
    BY <2>1 DEF PutStates
  <2>4. doing'[t] = q /\ \A u \in Tabs \ {t} : doing'[u] = doing[u]
    BY <1>0, <2>2
  <2> HIDE DEF q
  <2>5. q.beside = {} => \A u \in Tabs \ {t} : ~Endpoint!Busy(u)'
    BY <1>6, <2>3, <2>4, StillAlone
  <2> QED
    BY <2>2, <2>3, <2>4, <2>5
<1>7. ASSUME NEW t \in Tabs, Endpoint!Mirror(t)
      PROVE  EndpointHeld'
  <2> DEFINE todo == Endpoint!Refreshed(doing[t].merged, own["base"])
  <2>1. /\ doing[t].at = "mirror" /\ Endpoint!Busy(t)
        /\ doing' = Endpoint!ToWrite(t, todo, "first") /\ UNCHANGED <<providers, own, clean>>
    BY <1>7 DEF Endpoint!Mirror, Endpoint!listVars, Endpoint!Busy
  <2>2. PutHeld(t) /\ ~clean
    BY <1>0, <2>1 DEF PutHeld
  <2>3. /\ todo = {} => Endpoint!Matches(doing[t].merged, own["base"]) = {}
        /\ todo # {} => /\ Endpoint!Matches(doing[t].merged, own["base"]) # {}
                        /\ todo = {[field |-> "key",
                                    value |-> Endpoint!KeyOf(doing[t].merged, own["base"])]}
    BY DEF Endpoint!Refreshed
  <2> HIDE DEF todo
  <2>4. PICK q : /\ doing' = [doing EXCEPT ![t] = q] /\ doing'[t] = q
                 /\ q.at = IF todo = {} THEN "first" ELSE "write"
                 /\ q.todo = todo /\ q.then = "first" /\ q.minutes = doing[t].minutes
                 /\ q.beside = doing[t].beside /\ q.merged = doing[t].merged
                 /\ q.beside = {} => \A u \in Tabs \ {t} : ~Endpoint!Busy(u)'
    BY <1>6, <2>1
  <2>5. PutHeld(t)'
    BY <2>1, <2>2, <2>3, <2>4 DEF PutHeld
  <2> QED
    BY <1>3, <2>1, <2>2, <2>4, <2>5
<1>8. ASSUME NEW t \in Tabs, Endpoint!MirrorFirst(t)
      PROVE  EndpointHeld'
  <2> DEFINE list == doing[t].merged
             todo == IF list = <<>> \/ own["base"] # "none" THEN {} ELSE Mirrored(list)
  <2>1. /\ doing[t].at = "first" /\ Endpoint!Busy(t)
        /\ doing' = Endpoint!ToWrite(t, todo, "rest") /\ UNCHANGED <<providers, own, clean>>
    BY <1>8 DEF Endpoint!MirrorFirst, Endpoint!listVars, Endpoint!Busy, Mirrored, Endpoint!None
  <2>2. PutHeld(t) /\ ~clean
    BY <1>0, <2>1 DEF PutHeld
  <2>3. /\ todo = {} => list = <<>> \/ own["base"] # "none"
        /\ todo # {} => list # <<>> /\ own["base"] = "none" /\ todo = Mirrored(list)
    BY DEF Mirrored, Endpoint!Fields
  <2> HIDE DEF todo
  <2>4. PICK q : /\ doing' = [doing EXCEPT ![t] = q] /\ doing'[t] = q
                 /\ q.at = IF todo = {} THEN "rest" ELSE "write"
                 /\ q.todo = todo /\ q.then = "rest" /\ q.minutes = doing[t].minutes
                 /\ q.beside = doing[t].beside /\ q.merged = doing[t].merged
                 /\ q.beside = {} => \A u \in Tabs \ {t} : ~Endpoint!Busy(u)'
    BY <1>6, <2>1
  <2>5. doing[t].beside = {} /\ todo = {} => InStep(providers, own)
    <3>1. doing[t].beside = {} => providers = list
      BY <2>1, <2>2 DEF PutHeld
    <3>2. CASE providers = <<>>
      BY <3>2, EmptyIsInStep
    <3>3. CASE own["base"] # "none"
      BY <2>1, <2>2, <3>3 DEF PutHeld, InStep
    <3> QED
      BY <2>3, <3>1, <3>2, <3>3
  <2>6. PutHeld(t)'
    BY <2>1, <2>2, <2>3, <2>4, <2>5 DEF PutHeld
  <2> QED
    BY <1>3, <2>1, <2>2, <2>4, <2>6
<1>9. ASSUME NEW t \in Tabs, Endpoint!Write(t)
      PROVE  EndpointHeld'
  <2>1. PICK w \in doing[t].todo :
          /\ own' = [own EXCEPT ![w.field] = w.value]
          /\ doing' = Endpoint!ToWrite(t, doing[t].todo \ {w}, doing[t].then)
    BY <1>9 DEF Endpoint!Write
  <2>2. /\ doing[t].at = "write" /\ Endpoint!Busy(t) /\ UNCHANGED <<providers, clean>>
    BY <1>9 DEF Endpoint!Write, Endpoint!Busy
  <2>3. PutHeld(t) /\ ~clean /\ doing[t].then \in {"first", "rest"}
    BY <1>0, <2>2 DEF PutHeld, OneEach
  <2> DEFINE todo == doing[t].todo \ {w}
             then == doing[t].then
  <2>4. PICK q : /\ doing' = [doing EXCEPT ![t] = q] /\ doing'[t] = q
                 /\ q.at = IF todo = {} THEN then ELSE "write"
                 /\ q.todo = todo /\ q.then = then /\ q.minutes = doing[t].minutes
                 /\ q.beside = doing[t].beside /\ q.merged = doing[t].merged
                 /\ q.beside = {} => \A u \in Tabs \ {t} : ~Endpoint!Busy(u)'
    <3>1. then \in {"first", "rest"} /\ doing' = Endpoint!ToWrite(t, todo, then)
      BY <2>1, <2>3
    <3> HIDE DEF todo, then
    <3> QED
      BY <1>6, <2>2, <3>1
  <2>5. DOMAIN own = Endpoint!Fields
    BY DEF EndpointTypes
  <2>6. ASSUME doing[t].beside = {}, then = "first"
        PROVE  /\ todo = {} /\ own'["base"] = own["base"]
               /\ own'["key"] = Endpoint!KeyOf(providers, own["base"])
    <3>1. /\ doing[t].todo =
               {[field |-> "key", value |-> Endpoint!KeyOf(providers, own["base"])]}
      BY <2>2, <2>3, <2>6 DEF PutHeld
    <3>2. w = [field |-> "key", value |-> Endpoint!KeyOf(providers, own["base"])]
      BY <2>1, <3>1
    <3> QED
      BY <2>1, <2>5, <3>1, <3>2 DEF Endpoint!Fields
  <2>7. ASSUME doing[t].beside = {}, then = "rest"
        PROVE  /\ providers # <<>> /\ todo \subseteq Mirrored(providers)
               /\ \A v \in Mirrored(providers) : v \in todo \/ own'[v.field] = v.value
    <3>1. /\ providers # <<>> /\ doing[t].todo \subseteq Mirrored(providers)
          /\ \A v \in Mirrored(providers) : v \in doing[t].todo \/ own[v.field] = v.value
      BY <2>2, <2>3, <2>7 DEF PutHeld
    <3>2. \A v \in Mirrored(providers) :
            v.field \in Endpoint!Fields /\ (v.field = w.field => v = w)
      <4>1. w \in Mirrored(providers)
        BY <2>1, <3>1
      <4> QED
        BY <4>1 DEF Mirrored
    <3>3. ASSUME NEW v \in Mirrored(providers)
          PROVE  v \in todo \/ own'[v.field] = v.value
      <4>1. CASE v = w
        BY <2>1, <2>5, <3>2, <4>1
      <4>2. CASE v # w
        BY <2>1, <2>5, <3>1, <3>2, <4>2
      <4> QED
        BY <4>1, <4>2
    <3> QED
      BY <3>1, <3>3
  <2>8. ASSUME doing[t].beside = {}, then = "rest", todo = {}
        PROVE  InStep(providers, own')
    <3>1. /\ providers # <<>>
          /\ \A v \in Mirrored(providers) : own'[v.field] = v.value
      BY <2>7, <2>8
    <3>2. /\ [field |-> "base", value |-> providers[1].base] \in Mirrored(providers)
          /\ [field |-> "key", value |-> providers[1].key] \in Mirrored(providers)
      BY DEF Mirrored, Endpoint!Fields
    <3>3. own'["base"] = providers[1].base /\ own'["key"] = providers[1].key
      BY <3>1, <3>2
    <3> QED
      BY <1>0, <3>1, <3>3, FirstIsInStep
  <2> HIDE DEF todo, then
  <2>9. PutHeld(t)'
    <3>0. /\ q.minutes = Endpoint!Unset /\ q.at \in {"write", then}
          /\ q.at = "write" => todo # {}
      <4>1. doing[t].minutes = Endpoint!Unset
        BY <2>2, <2>3 DEF PutHeld
      <4>2. then # "write"
        BY <2>3 DEF then
      <4> QED
        BY <2>4, <4>1, <4>2
    <3>1. CASE doing[t].beside # {}
      BY <2>2, <2>3, <2>4, <3>0, <3>1 DEF PutHeld
    <3>2. CASE doing[t].beside = {} /\ then = "first"
      <4>1. /\ q.at = "first" /\ providers' = q.merged
            /\ own'["key"] = Endpoint!KeyOf(providers', own'["base"])
        <5>1. providers = doing[t].merged
          BY <2>2, <2>3, <3>2 DEF PutHeld
        <5> QED
          BY <2>2, <2>4, <2>6, <3>2, <5>1
      <4> QED
        BY <2>2, <2>3, <2>4, <3>0, <4>1 DEF PutHeld
    <3>3. CASE doing[t].beside = {} /\ then = "rest"
      <4>1. providers' = q.merged
        BY <2>2, <2>3, <2>4, <3>3 DEF PutHeld
      <4>2. q.at = "write" =>
              /\ providers' # <<>> /\ q.todo \subseteq Mirrored(providers)'
              /\ \A v \in Mirrored(providers)' : v \in q.todo \/ own'[v.field] = v.value
        <5>1. Mirrored(providers)' = Mirrored(providers)
          BY <2>2 DEF Mirrored
        <5> QED
          BY <2>2, <2>4, <2>7, <3>3, <5>1
      <4>3. q.at = "rest" => InStep(providers, own)'
        <5>1. InStep(providers, own)' <=> InStep(providers, own')
          BY <2>2 DEF InStep
        <5>2. q.at = "rest" => todo = {}
          BY <2>4, <3>3
        <5> QED
          BY <2>8, <3>3, <5>1, <5>2
      <4> QED
        BY <2>2, <2>3, <2>4, <3>0, <3>3, <4>1, <4>2, <4>3 DEF PutHeld
    <3> QED
      BY <2>3, <3>1, <3>2, <3>3 DEF then
  <2> QED
    BY <1>3, <2>2, <2>3, <2>4, <2>9
<1>10. ASSUME NEW t \in Tabs, Endpoint!StoreRest(t) \/ Endpoint!Fails(t)
       PROVE  EndpointHeld'
  <2>1. /\ doing' = [doing EXCEPT ![t] = [at |-> "idle"]] /\ UNCHANGED <<providers, own>>
        /\ doing[t].at \in {"list", "write", "rest"} /\ Endpoint!Busy(t)
        /\ clean' => \/ clean
                     \/ /\ doing[t].at = "rest" /\ doing[t].minutes = Endpoint!Unset
                        /\ doing[t].beside = {}
    <3>1. CASE Endpoint!Fails(t)
      BY <3>1 DEF Endpoint!Fails, Endpoint!NoList, Endpoint!listVars, Endpoint!Busy
    <3>2. CASE Endpoint!StoreRest(t)
      <4>1. /\ doing' = [doing EXCEPT ![t] = [at |-> "idle"]] /\ UNCHANGED <<providers, own>>
            /\ doing[t].at = "rest"
        BY <3>2 DEF Endpoint!StoreRest, Endpoint!NoList
      <4>2. clean' => \/ clean
                      \/ doing[t].minutes = Endpoint!Unset /\ doing[t].beside = {}
        BY <3>2, Zenon DEF Endpoint!StoreRest
      <4> QED
        BY <4>1, <4>2 DEF Endpoint!Busy
    <3> QED
      BY <1>10, <3>1, <3>2
  <2>2. PutHeld(t)'
    BY <1>0, <2>1 DEF PutHeld, Endpoint!Busy
  <2>3. clean' => InStep(providers, own)'
    <3>1. InStep(providers, own)' <=> InStep(providers, own)
      BY <2>1 DEF InStep
    <3> QED
      BY <1>0, <2>1, <3>1 DEF PutHeld
  <2> QED
    BY <1>3, <2>1, <2>2, <2>3
<1>11. ASSUME NEW t \in Tabs, NEW list, doing[t].at = "open",
              Endpoint!Put(t, Endpoint!Request(list))
       PROVE  EndpointHeld'
  <2>1. /\ Endpoint!Request(list).at = "merge"
        /\ Endpoint!Request(list).minutes = Endpoint!Unset
        /\ Endpoint!Request(list).beside = {u \in Tabs : Endpoint!Busy(u)}
    BY DEF Endpoint!Request
  <2> QED
    BY <1>2, <1>11, <2>1
<1>12. ASSUME NEW t \in Tabs, NEW minutes \in {0, 1}, Endpoint!SaveRest(t, minutes)
       PROVE  EndpointHeld'
  <2> DEFINE q == [Endpoint!Request(<<>>) EXCEPT !.at = "rest", !.minutes = minutes]
  <2>1. /\ q.at = "rest" /\ q.minutes = minutes
        /\ q.beside = {u \in Tabs : Endpoint!Busy(u)}
    BY DEF Endpoint!Request
  <2>2. doing[t].at = "open" /\ Endpoint!Put(t, q)
    BY <1>12 DEF Endpoint!SaveRest
  <2>3. minutes # Endpoint!Unset
    BY DEF Endpoint!Unset
  <2> HIDE DEF q
  <2> QED
    BY <1>2, <2>1, <2>2, <2>3
<1>13. CASE UNCHANGED endpointVars
  BY <1>13 DEF endpointVars, EndpointHeld, PutHeld, Endpoint!Busy, InStep
<1> QED
  BY <1>1, <1>4, <1>5, <1>7, <1>8, <1>9, <1>10, <1>11, <1>12, <1>13
     DEF Endpoint!Next, Endpoint!SaveAdded, Endpoint!SaveEdited, Endpoint!SaveDeleted

LEMMA CleanStep == clean \in BOOLEAN /\ [Endpoint!Next]_endpointVars => clean' \in BOOLEAN
<1> SUFFICES ASSUME clean \in BOOLEAN, [Endpoint!Next]_endpointVars
             PROVE  clean' \in BOOLEAN
  OBVIOUS
<1>1. ASSUME UNCHANGED clean
      PROVE  clean' \in BOOLEAN
  BY <1>1
<1>2. ASSUME NEW t, Endpoint!StoreList(t)
      PROVE  clean' \in BOOLEAN
  BY <1>2, Zenon DEF Endpoint!StoreList
<1>3. ASSUME NEW t, Endpoint!StoreRest(t)
      PROVE  clean' \in BOOLEAN
  <2>1. UNCHANGED clean \/ clean' = (doing[t].beside = {})
    BY <1>3, Zenon DEF Endpoint!StoreRest
  <2> QED
    BY <2>1, Zenon
<1> QED
  BY <1>1, <1>2, <1>3, Zenon
     DEF Endpoint!Next, Endpoint!Load, Endpoint!Merge, Endpoint!Mirror, Endpoint!MirrorFirst,
         Endpoint!Write, Endpoint!Fails, Endpoint!SaveAdded, Endpoint!SaveEdited,
         Endpoint!SaveDeleted, Endpoint!SaveRest, Endpoint!Put, Endpoint!listVars, endpointVars

LEMMA EndpointInit == Endpoint!Init => EndpointIInv
<1> SUFFICES ASSUME Endpoint!Init
             PROVE  EndpointIInv
  OBVIOUS
<1>1. providers = <<>> /\ clean = TRUE /\ \A t \in Tabs : doing[t].at = "idle"
  BY DEF Endpoint!Init, Endpoint!NoList
<1>2. EndpointTypes
  <2>1. <<>> \in Seq(Providers) /\ Len(<<>>) = 0
    OBVIOUS
  <2>2. doing \in [Tabs -> TabStates]
    BY DEF Endpoint!Init, Endpoint!NoList, TabStates
  <2> QED
    BY <1>1, <2>1, <2>2, EndpointAssumption
       DEF Endpoint!Init, EndpointTypes, OneEach, Distinct, Endpoint!Keys, Endpoint!Fields,
           Endpoint!None
<1>3. \A t \in Tabs : PutHeld(t)
  BY <1>1 DEF PutHeld, Endpoint!Busy
<1>4. InStep(providers, own)
  BY <1>1, EmptyIsInStep
<1> QED
  BY <1>1, <1>2, <1>3, <1>4 DEF EndpointIInv, EndpointHeld

LEMMA EndpointStep == EndpointIInv /\ [Endpoint!Next]_endpointVars => EndpointIInv'
BY EndpointTypesStep, EndpointHeldStep, CleanStep DEF EndpointIInv

LEMMA EndpointAsHeld == EndpointIInv => Endpoint!TypeOK /\ Endpoint!KeyFollows
<1> SUFFICES ASSUME EndpointIInv
             PROVE  Endpoint!TypeOK /\ Endpoint!KeyFollows
  OBVIOUS
<1>1. EndpointTypes /\ EndpointHeld /\ clean \in BOOLEAN
  BY DEF EndpointIInv
<1>2. Endpoint!TypeOK
  <2>1. /\ providers \in Seq(Providers) /\ Distinct(providers)
        /\ ids \in 0 .. MaxIds /\ doing \in [Tabs -> TabStates]
    BY <1>1 DEF EndpointTypes
  <2>2. \A i \in DOMAIN providers : providers[i] \in Endpoint!Record
    <3>1. Providers \subseteq Endpoint!Record
      BY <2>1, EndpointAssumption DEF Providers, Endpoint!Record
    <3>2. \A i \in DOMAIN providers : providers[i] \in Providers
      BY <2>1
    <3> QED
      BY <3>1, <3>2
  <2>3. \A i, j \in DOMAIN providers : providers[i].id = providers[j].id => i = j
    BY <2>1 DEF Distinct
  <2>4. \A f \in Endpoint!Fields : own[f] \in Endpoint!Value(f)
    BY <1>1 DEF EndpointTypes, Endpoint!Fields, Endpoint!Value, Endpoint!None
  <2>5. \A t \in Tabs : doing[t].at \in
          {"idle", "open", "merge", "list", "mirror", "first", "rest", "write"}
    BY <2>1 DEF TabStates, PutStates
  <2> QED
    BY <1>1, <2>2, <2>3, <2>4, <2>5 DEF EndpointTypes, Endpoint!TypeOK
<1>3. Endpoint!KeyFollows
  BY <1>1 DEF EndpointHeld, InStep, Endpoint!KeyFollows, Endpoint!None
<1> QED
  BY <1>2, <1>3

(* Sync, Shutdown and the test: a process that runs has a client that somebody closes;
   readLoop: no request is left waiting on a process that is gone; handlePutSettings: the
   effective key is that of the provider whose endpoint is the effective one. *)
THEOREM ServersAreHeld == PartsSpec => []ServersHeld
<1> DEFINE Inv == ServersIInv /\ EndpointIInv
<1>1. PartsInit => Inv
  BY ServersInit, EndpointInit DEF PartsInit
<1>2. Inv /\ [PartsNext]_vars => Inv'
  <2> SUFFICES ASSUME ServersIInv, EndpointIInv, [PartsNext]_vars
               PROVE  Inv'
    OBVIOUS
  <2>1. CASE InServers(Servers!Next)
    <3>1. ServersIInv'
      BY <2>1, ServersStep DEF InServers
    <3>2. UNCHANGED endpointVars
      BY <2>1, Zenon DEF InServers
    <3> QED
      BY <3>1, <3>2, EndpointStep
  <2>2. CASE InEndpoint(Endpoint!Next)
    <3>1. EndpointIInv'
      BY <2>2, EndpointStep DEF InEndpoint
    <3>2. UNCHANGED serverVars
      BY <2>2, Zenon DEF InEndpoint
    <3> QED
      BY <3>1, <3>2, ServersStep
  <2>3. CASE UNCHANGED <<serverVars, endpointVars>>
    BY <2>3, ServersStep, EndpointStep
  <2> QED
    BY <2>1, <2>2, <2>3, Zenon
       DEF PartsNext, InPreviews, InShells, InTools, InExtensions, InSkills, InGit, vars,
           connectedVars
<1>3. Inv => ServersHeld
  BY ServersAsHeld, EndpointAsHeld DEF ServersHeld
<1> HIDE DEF Inv
<1> QED
  BY <1>1, <1>2, <1>3, PTL DEF PartsSpec
-----------------------------------------------------------------------------
(* What a request over the skills may be in the middle of. *)
SkillLists == [Prompt!Names -> Seq(BOOLEAN)]
ToSave == [at : {"save"}, id : Prompt!Names, read : SkillLists, list : SkillLists]
SkillStates ==
  [at : {"free"}] \cup [at : {"download"}, id : {Market}] \cup [at : {"list"}, id : Prompt!Names]
    \cup ToSave

SkillTypes ==
  /\ boot \in {"down", "seed", "seed_list", "seed_flag", "refresh", "record", "up"}
  /\ ships \in Prompt!Releases /\ recorded \in Prompt!Releases \cup {"none"}
  /\ skillFiles \in [Prompt!Names -> {"none", "part", "market", "own"} \cup Prompt!Releases]
  /\ skills \in SkillLists
  /\ handling \in [Handlers -> SkillStates]
SkillFlags == seeded \in BOOLEAN /\ removed \in BOOLEAN /\ crossing \in BOOLEAN

(* A start seeds once, and no request is under way before it is up; the bundled file is
   one that is recorded, or the user's, or about to be recorded. *)
BootHeld ==
  /\ boot # "up" => \A h \in Handlers : handling[h].at = "free"
  /\ boot \in {"seed_list", "record"} => skillFiles[Bundle] = ships
  /\ boot = "seed_list" => ~seeded
  /\ boot \in {"refresh", "record", "up"} \/ removed => seeded \/ Bundle \in broken
  /\ \/ skillFiles[Bundle] \in {"none", "own", recorded} \/ Bundle \in broken
     \/ boot = "record"

(* A skill as a listed one has to be. *)
Fit(n) ==
  /\ skillFiles[n] \notin {"none", "part"}
  /\ n = Bundle => ~removed /\ (boot = "up" => skillFiles[n] \in {ships, "own"})
Concerns(h, n) == handling[h].at # "free" /\ handling[h].id = n
OnlyOne(h, n) == n \notin broken /\ \A g \in Handlers \ {h} : ~Concerns(g, n)

(* While no two requests met, a listed skill nobody is at is fit... *)
ListedFit ==
  \A n \in Prompt!Names :
    n \notin broken /\ (\A h \in Handlers : ~Concerns(h, n)) /\ n \in Prompt!Listed(skills) => Fit(n)
(* ... and what one request is to list is so as well, and all that it changes. *)
ToListFit(h) ==
  LET q == handling[h] IN
  /\ q.at = "list" /\ OnlyOne(h, q.id) => Fit(q.id)
  /\ q.at = "save" /\ OnlyOne(h, q.id) /\ q.id \in Prompt!Listed(q.list) => Fit(q.id)
  /\ q.at = "save" => \A n \in Prompt!Names \ {q.id} : q.list[n] = q.read[n]

SkillsIInv ==
  /\ SkillTypes /\ SkillFlags /\ BootHeld
  /\ ~crossing => ListedFit /\ \A h \in Handlers : ToListFit(h)
-----------------------------------------------------------------------------

LEMMA ListsKept ==
  ASSUME NEW s \in SkillLists, NEW n \in Prompt!Names, NEW o \in BOOLEAN
  PROVE  /\ Prompt!Without(s, n) \in SkillLists /\ n \notin Prompt!Listed(Prompt!Without(s, n))
         /\ \A m \in Prompt!Names \ {n} : Prompt!Without(s, n)[m] = s[m]
         /\ Prompt!Appended(s, n) \in SkillLists
         /\ \A m \in Prompt!Names \ {n} : Prompt!Appended(s, n)[m] = s[m]
         /\ n \in Prompt!Listed(s) => Prompt!Switched(s, n, o) \in SkillLists
         /\ \A m \in Prompt!Names \ {n} : Prompt!Switched(s, n, o)[m] = s[m]
<1>1. s[n] \in Seq(BOOLEAN)
  BY DEF SkillLists
<1>2. <<>> \in Seq(BOOLEAN) /\ Append(s[n], TRUE) \in Seq(BOOLEAN)
  BY <1>1
<1>3. ASSUME n \in Prompt!Listed(s)
      PROVE  <<o>> \o Tail(s[n]) \in Seq(BOOLEAN)
  <2>1. s[n] # <<>>
    BY <1>3 DEF Prompt!Listed
  <2>2. Tail(s[n]) \in Seq(BOOLEAN)
    BY <1>1, <2>1, HeadTailProperties
  <2>3. <<o>> \in Seq(BOOLEAN)
    OBVIOUS
  <2> QED
    BY <2>2, <2>3
<1> QED
  BY <1>2, <1>3
     DEF SkillLists, Prompt!Without, Prompt!Appended, Prompt!Switched, Prompt!Listed

LEMMA SkillsInit == Prompt!Init => SkillsIInv
<1> SUFFICES ASSUME Prompt!Init
             PROVE  SkillsIInv
  OBVIOUS
<1>1. skills \in SkillLists
  BY DEF Prompt!Init, SkillLists
<1>2. SkillTypes /\ SkillFlags
  BY <1>1 DEF Prompt!Init, Prompt!NoRequest, SkillTypes, SkillFlags, SkillStates, Prompt!Names,
              Prompt!Releases
<1>3. BootHeld /\ ListedFit /\ \A h \in Handlers : ToListFit(h)
  BY DEF Prompt!Init, Prompt!NoRequest, Prompt!Names, BootHeld, ListedFit, ToListFit,
         Prompt!Listed
<1> QED
  BY <1>2, <1>3 DEF SkillsIInv

LEMMA SkillTypesStep == SkillTypes /\ [Prompt!Next]_skillVars => SkillTypes'
<1> SUFFICES ASSUME SkillTypes, [Prompt!Next]_skillVars
             PROVE  SkillTypes'
  OBVIOUS
<1> USE DEF SkillTypes, SkillStates, Prompt!Names, Prompt!Releases, Prompt!NoRequest, Prompt!To,
            Prompt!Accepts
<1>1. CASE Prompt!BootSeeds
  BY <1>1 DEF Prompt!BootSeeds
<1>2. CASE Prompt!BootLists
  BY <1>2, ListsKept DEF Prompt!BootLists
<1>3. CASE Prompt!BootFlags
  BY <1>3 DEF Prompt!BootFlags
<1>4. CASE Prompt!BootRefreshes
  BY <1>4 DEF Prompt!BootRefreshes
<1>5. CASE Prompt!BootRecordsHash
  BY <1>5 DEF Prompt!BootRecordsHash
<1>6. CASE Prompt!Die
  BY <1>6 DEF Prompt!Die
<1>7. CASE Prompt!Boot
  BY <1>7 DEF Prompt!Boot
<1>8. ASSUME NEW h \in Handlers, Prompt!InstallWipes(h)
      PROVE  SkillTypes'
  BY <1>8 DEF Prompt!InstallWipes
<1>9. ASSUME NEW h \in Handlers, Prompt!InstallDownloads(h)
      PROVE  SkillTypes'
  BY <1>9 DEF Prompt!InstallDownloads
<1>10. ASSUME NEW h \in Handlers, Prompt!InstallFails(h)
       PROVE  SkillTypes'
  BY <1>10 DEF Prompt!InstallFails
<1>11. ASSUME NEW h \in Handlers, Prompt!InstallBundled(h)
       PROVE  SkillTypes'
  BY <1>11 DEF Prompt!InstallBundled
<1>12. ASSUME NEW h \in Handlers, Prompt!InstallLists(h)
       PROVE  SkillTypes'
  <2> DEFINE n == handling[h].id
             list == Prompt!Appended(IF n = Market THEN Prompt!Without(skills, n) ELSE skills, n)
             q == [at |-> "save", id |-> n, read |-> skills, list |-> list]
  <2>1. n \in Prompt!Names
    BY <1>12 DEF Prompt!InstallLists, ToSave
  <2>2. list \in SkillLists
    BY <2>1, ListsKept
  <2> HIDE DEF list
  <2>3. q \in ToSave
    BY <2>1, <2>2 DEF ToSave
  <2> QED
    BY <1>12, <2>3 DEF Prompt!InstallLists, list
<1>13. ASSUME NEW h \in Handlers, NEW n \in Prompt!Names, Prompt!CreateSkill(h, n)
       PROVE  SkillTypes'
  <2> DEFINE list == IF n \in Prompt!Listed(skills) THEN Prompt!Switched(skills, n, TRUE)
                     ELSE Prompt!Appended(skills, n)
             q == [at |-> "save", id |-> n, read |-> skills, list |-> list]
  <2>1. list \in SkillLists
    BY ListsKept
  <2> HIDE DEF list
  <2>2. q \in ToSave
    BY <2>1 DEF ToSave
  <2> QED
    BY <1>13, <2>2 DEF Prompt!CreateSkill, list
<1>14. ASSUME NEW h \in Handlers, NEW n \in Prompt!Names, NEW o \in BOOLEAN,
              Prompt!Toggle(h, n, o)
       PROVE  SkillTypes'
  <2> DEFINE list == Prompt!Switched(skills, n, o)
             q == [at |-> "save", id |-> n, read |-> skills, list |-> list]
  <2>1. list \in SkillLists
    BY <1>14, ListsKept DEF Prompt!Toggle
  <2> HIDE DEF list
  <2>2. q \in ToSave
    BY <2>1 DEF ToSave
  <2> QED
    BY <1>14, <2>2 DEF Prompt!Toggle, list
<1>15. ASSUME NEW h \in Handlers, NEW n \in Prompt!Names, Prompt!RemoveSkill(h, n)
       PROVE  SkillTypes'
  <2> DEFINE list == Prompt!Without(skills, n)
             q == [at |-> "save", id |-> n, read |-> skills, list |-> list]
  <2>1. list \in SkillLists
    BY ListsKept
  <2> HIDE DEF list
  <2>2. q \in ToSave
    BY <2>1 DEF ToSave
  <2> QED
    BY <1>15, <2>2 DEF Prompt!RemoveSkill, list
<1>16. ASSUME NEW h \in Handlers, Prompt!Saves(h)
       PROVE  SkillTypes'
  BY <1>16 DEF Prompt!Saves, ToSave
<1>17. ASSUME NEW h \in Handlers, Prompt!SaveRefused(h)
       PROVE  SkillTypes'
  BY <1>17 DEF Prompt!SaveRefused
<1>18. CASE UNCHANGED skillVars
  BY <1>18 DEF skillVars
<1> QED
  BY <1>1, <1>2, <1>3, <1>4, <1>5, <1>6, <1>7, <1>8, <1>9, <1>10, <1>11, <1>12, <1>13, <1>14,
     <1>15, <1>16, <1>17, <1>18
     DEF Prompt!Next

LEMMA SkillFlagsStep ==
  ASSUME SkillFlags, [Prompt!Next]_skillVars
  PROVE  SkillFlags' /\ (crossing => crossing')
<1>1. ASSUME NEW h \in Handlers, NEW n \in Prompt!Names, Prompt!CreateSkill(h, n)
      PROVE  SkillFlags' /\ (crossing => crossing')
  BY <1>1, Zenon DEF SkillFlags, Prompt!CreateSkill
<1>2. ASSUME NEW h \in Handlers, NEW n \in Prompt!Names, Prompt!RemoveSkill(h, n)
      PROVE  SkillFlags' /\ (crossing => crossing')
  BY <1>2, Zenon DEF SkillFlags, Prompt!RemoveSkill
<1>3. ASSUME NEW h \in Handlers, Prompt!Saves(h)
      PROVE  SkillFlags' /\ (crossing => crossing')
  BY <1>3, Zenon DEF SkillFlags, Prompt!Saves
<1>4. ASSUME NEW h \in Handlers,
             Prompt!InstallWipes(h) \/ Prompt!InstallDownloads(h) \/ Prompt!InstallFails(h)
               \/ Prompt!InstallBundled(h) \/ Prompt!InstallLists(h) \/ Prompt!SaveRefused(h)
               \/ (\E n \in Prompt!Names, o \in BOOLEAN : Prompt!Toggle(h, n, o))
      PROVE  SkillFlags' /\ (crossing => crossing')
  BY <1>4, Zenon
     DEF SkillFlags, Prompt!InstallWipes, Prompt!InstallDownloads, Prompt!InstallFails,
         Prompt!InstallBundled, Prompt!InstallLists, Prompt!SaveRefused, Prompt!Toggle
<1>5. CASE Prompt!BootSeeds \/ Prompt!BootLists \/ Prompt!BootFlags \/ Prompt!BootRefreshes
  BY <1>5, Zenon
     DEF SkillFlags, Prompt!BootSeeds, Prompt!BootLists, Prompt!BootFlags, Prompt!BootRefreshes
<1>6. CASE Prompt!BootRecordsHash \/ Prompt!Die \/ Prompt!Boot \/ UNCHANGED skillVars
  BY <1>6, Zenon
     DEF SkillFlags, Prompt!BootRecordsHash, Prompt!Die, Prompt!Boot, skillVars
<1> QED
  BY <1>1, <1>2, <1>3, <1>4, <1>5, <1>6, Zenon DEF Prompt!Next

LEMMA BootHeldStep ==
  ASSUME SkillTypes, SkillTypes', BootHeld, [Prompt!Next]_skillVars
  PROVE  BootHeld'
<1> USE AddedAssumption
     DEF SkillTypes, SkillStates, ToSave, BootHeld, Prompt!Names, Prompt!Releases,
         Prompt!NoRequest, Prompt!To, Prompt!Accepts, Prompt!Listed
<1>1. CASE Prompt!BootSeeds
  BY <1>1 DEF Prompt!BootSeeds, Prompt!SeedNeeded
<1>2. CASE Prompt!BootLists
  BY <1>2 DEF Prompt!BootLists
<1>3. CASE Prompt!BootFlags
  BY <1>3 DEF Prompt!BootFlags
<1>4. CASE Prompt!BootRefreshes
  BY <1>4 DEF Prompt!BootRefreshes
<1>5. CASE Prompt!BootRecordsHash
  BY <1>5 DEF Prompt!BootRecordsHash
<1>6. CASE Prompt!Die
  BY <1>6 DEF Prompt!Die
<1>7. CASE Prompt!Boot
  BY <1>7 DEF Prompt!Boot
<1>8. ASSUME NEW h \in Handlers, Prompt!InstallWipes(h)
      PROVE  BootHeld'
  BY <1>8 DEF Prompt!InstallWipes
<1>9. ASSUME NEW h \in Handlers, Prompt!InstallDownloads(h)
      PROVE  BootHeld'
  BY <1>9 DEF Prompt!InstallDownloads
<1>10. ASSUME NEW h \in Handlers, Prompt!InstallFails(h)
       PROVE  BootHeld'
  BY <1>10 DEF Prompt!InstallFails
<1>11. ASSUME NEW h \in Handlers, Prompt!InstallBundled(h)
       PROVE  BootHeld'
  BY <1>11 DEF Prompt!InstallBundled
<1>12. ASSUME NEW h \in Handlers, Prompt!InstallLists(h)
       PROVE  BootHeld'
  BY <1>12 DEF Prompt!InstallLists
<1>13. ASSUME NEW h \in Handlers, NEW n \in Prompt!Names, Prompt!CreateSkill(h, n)
       PROVE  BootHeld'
  <2>1. boot = "up" /\ UNCHANGED <<boot, ships, recorded, seeded, broken>>
    BY <1>13 DEF Prompt!CreateSkill
  <2>2. skillFiles' = [skillFiles EXCEPT ![n] = "own"]
    BY <1>13 DEF Prompt!CreateSkill
  <2> QED
    BY <2>1, <2>2
<1>14. ASSUME NEW h \in Handlers, NEW n \in Prompt!Names, NEW o \in BOOLEAN,
              Prompt!Toggle(h, n, o)
       PROVE  BootHeld'
  BY <1>14 DEF Prompt!Toggle
<1>15. ASSUME NEW h \in Handlers, NEW n \in Prompt!Names, Prompt!RemoveSkill(h, n)
       PROVE  BootHeld'
  <2>1. boot = "up" /\ UNCHANGED <<boot, ships, recorded, seeded, broken>>
    BY <1>15 DEF Prompt!RemoveSkill
  <2>2. skillFiles' = [skillFiles EXCEPT ![n] = "none"]
    BY <1>15 DEF Prompt!RemoveSkill
  <2> QED
    BY <2>1, <2>2
<1>16. ASSUME NEW h \in Handlers, Prompt!Saves(h)
       PROVE  BootHeld'
  <2>1. handling[h].at = "save" /\ UNCHANGED <<boot, ships, recorded, skillFiles, seeded, removed, broken>>
    BY <1>16 DEF Prompt!Saves
  <2> QED
    BY <2>1
<1>17. ASSUME NEW h \in Handlers, Prompt!SaveRefused(h)
       PROVE  BootHeld'
  BY <1>17 DEF Prompt!SaveRefused
<1>18. CASE UNCHANGED skillVars
  BY <1>18 DEF skillVars
<1> QED
  BY <1>1, <1>2, <1>3, <1>4, <1>5, <1>6, <1>7, <1>8, <1>9, <1>10, <1>11, <1>12, <1>13, <1>14,
     <1>15, <1>16, <1>17, <1>18
     DEF Prompt!Next

(* A request that has to do with one skill leaves the others, and the requests that have
   to do with them, as they were. *)
LEMMA OthersFit ==
  ASSUME SkillTypes, ListedFit, \A g \in Handlers : ToListFit(g),
         NEW h \in Handlers, NEW n \in Prompt!Names,
         \A g \in Handlers \ {h} : handling'[g] = handling[g],
         broken \subseteq broken', UNCHANGED <<boot, ships>>,
         handling[h].at # "free" => handling[h].id = n,
         n \in broken' \/ (handling'[h].at # "free" /\ handling'[h].id = n),
         \A m \in Prompt!Names \ {n} : Fit(m) => Fit(m)'
  PROVE  /\ \A g \in Handlers \ {h} : ToListFit(g)'
         /\ UNCHANGED skills => ListedFit'
<1>1. ASSUME NEW g \in Handlers \ {h}, NEW m \in Prompt!Names, OnlyOne(g, m)'
      PROVE  OnlyOne(g, m) /\ m # n
  BY <1>1 DEF OnlyOne, Concerns
<1>2. ASSUME NEW g \in Handlers \ {h}
      PROVE  ToListFit(g)'
  <2>1. handling[g] \in SkillStates /\ ToListFit(g)
    BY DEF SkillTypes
  <2>2. CASE handling[g].at \in {"list", "save"}
    <3>1. handling[g].id \in Prompt!Names
      BY <2>1, <2>2 DEF SkillStates, ToSave
    <3> QED
      BY <1>1, <2>1, <3>1 DEF ToListFit, Prompt!Listed
  <2>3. CASE handling[g].at \notin {"list", "save"}
    BY <2>3 DEF ToListFit
  <2> QED
    BY <2>2, <2>3
<1>3. ASSUME UNCHANGED skills
      PROVE  ListedFit'
  BY <1>3 DEF ListedFit, Concerns, Prompt!Listed
<1> QED
  BY <1>2, <1>3

LEMMA RequestsFit ==
  ASSUME SkillTypes, BootHeld, ListedFit, \A g \in Handlers : ToListFit(g),
         NEW h \in Handlers, NEW n \in Prompt!Names,
         \/ Prompt!InstallWipes(h) /\ n = Market
         \/ Prompt!InstallDownloads(h) /\ n = Market
         \/ Prompt!InstallFails(h) /\ n = Market
         \/ Prompt!InstallBundled(h) /\ n = Bundle
         \/ Prompt!InstallLists(h) /\ n = handling[h].id
         \/ Prompt!SaveRefused(h) /\ n = handling[h].id
         \/ Prompt!CreateSkill(h, n)
         \/ Prompt!RemoveSkill(h, n)
         \/ \E o \in BOOLEAN : Prompt!Toggle(h, n, o)
  PROVE  ListedFit' /\ \A g \in Handlers : ToListFit(g)'
<1> USE AddedAssumption
<1>a. /\ handling[h] \in SkillStates /\ handling \in [Handlers -> SkillStates]
      /\ DOMAIN skillFiles = Prompt!Names
  BY DEF SkillTypes
<1>b. Market \in Prompt!Names /\ Bundle \in Prompt!Names
  BY DEF Prompt!Names
<1>1. /\ \A g \in Handlers \ {h} : handling'[g] = handling[g]
      /\ broken \subseteq broken' /\ UNCHANGED <<boot, ships, skills>>
      /\ handling[h].at # "free" => handling[h].id = n
      /\ n \in broken' \/ (handling'[h].at # "free" /\ handling'[h].id = n)
      /\ \A m \in Prompt!Names \ {n} : skillFiles'[m] = skillFiles[m]
  <2> USE DEF SkillStates, ToSave, Prompt!To, Prompt!Accepts, Prompt!NoRequest
  <2>1. CASE Prompt!InstallWipes(h) /\ n = Market
    BY <1>a, <1>b, <2>1 DEF Prompt!InstallWipes
  <2>2. CASE Prompt!InstallDownloads(h) /\ n = Market
    BY <1>a, <1>b, <2>2 DEF Prompt!InstallDownloads
  <2>3. CASE Prompt!InstallFails(h) /\ n = Market
    BY <1>a, <1>b, <2>3 DEF Prompt!InstallFails
  <2>4. CASE Prompt!InstallBundled(h) /\ n = Bundle
    BY <1>a, <1>b, <2>4 DEF Prompt!InstallBundled
  <2>5. CASE Prompt!InstallLists(h) /\ n = handling[h].id
    BY <1>a, <1>b, <2>5 DEF Prompt!InstallLists
  <2>6. CASE Prompt!SaveRefused(h) /\ n = handling[h].id
    BY <1>a, <1>b, <2>6 DEF Prompt!SaveRefused
  <2>7. CASE Prompt!CreateSkill(h, n)
    BY <1>a, <1>b, <2>7 DEF Prompt!CreateSkill
  <2>8. CASE Prompt!RemoveSkill(h, n)
    BY <1>a, <1>b, <2>8 DEF Prompt!RemoveSkill
  <2>9. CASE \E o \in BOOLEAN : Prompt!Toggle(h, n, o)
    BY <1>a, <1>b, <2>9 DEF Prompt!Toggle
  <2> QED
    BY <2>1, <2>2, <2>3, <2>4, <2>5, <2>6, <2>7, <2>8, <2>9
<1>2. \A m \in Prompt!Names \ {n} : Fit(m) => Fit(m)'
  <2>1. n = Bundle \/ ~removed' \/ removed
    BY AddedAssumption, Zenon
       DEF Prompt!InstallWipes, Prompt!InstallDownloads, Prompt!InstallFails,
           Prompt!InstallBundled, Prompt!InstallLists, Prompt!SaveRefused, Prompt!CreateSkill,
           Prompt!RemoveSkill, Prompt!Toggle
  <2> QED
    BY <1>1, <2>1 DEF Fit
<1>3. (\A g \in Handlers \ {h} : ToListFit(g)') /\ ListedFit'
  BY <1>1, <1>2, OthersFit
<1>4. ToListFit(h)'
  <2>1. CASE Prompt!InstallWipes(h) \/ Prompt!InstallFails(h) \/ Prompt!SaveRefused(h)
    <3>1. handling'[h].at \in {"free", "download"}
      BY <1>a, <2>1
         DEF Prompt!InstallWipes, Prompt!InstallFails, Prompt!SaveRefused, Prompt!To,
             Prompt!NoRequest
    <3> QED
      BY <3>1 DEF ToListFit
  <2>2. CASE Prompt!InstallDownloads(h)
    <3>1. /\ handling'[h].at = "list" /\ handling'[h].id = Market
          /\ skillFiles'[Market] = "market"
      BY <1>a, <1>b, <2>2 DEF Prompt!InstallDownloads, Prompt!To
    <3> QED
      BY <3>1 DEF ToListFit, Fit
  <2>3. CASE Prompt!InstallBundled(h)
    <3>1. /\ handling'[h].at = "list" /\ handling'[h].id = Bundle
          /\ skillFiles'[Bundle] = ships /\ UNCHANGED ships /\ ships \in {"v1", "v2"}
      BY <1>a, <1>b, <2>3 DEF Prompt!InstallBundled, Prompt!To, SkillTypes, Prompt!Releases
    <3>2. ~removed'
      BY <2>3, Zenon DEF Prompt!InstallBundled
    <3> QED
      BY <3>1, <3>2 DEF ToListFit, Fit
  <2>4. CASE Prompt!InstallLists(h)
    <3> DEFINE rest == IF n = Market THEN Prompt!Without(skills, n) ELSE skills
    <3>1. n = handling[h].id /\ handling[h].at = "list"
      BY <2>4, <1>a, <1>1 DEF Prompt!InstallLists
    <3>2. rest \in SkillLists /\ \A m \in Prompt!Names \ {n} : rest[m] = skills[m]
      BY ListsKept DEF SkillTypes
    <3>3. \A m \in Prompt!Names \ {n} : Prompt!Appended(rest, n)[m] = rest[m]
      BY <3>2, ListsKept
    <3>4. /\ handling'[h].at = "save" /\ handling'[h].id = n /\ handling'[h].read = skills
          /\ handling'[h].list = Prompt!Appended(rest, n)
      BY <1>a, <2>4, <3>1 DEF Prompt!InstallLists, Prompt!To
    <3>5. OnlyOne(h, n)' => OnlyOne(h, n)
      BY <1>1 DEF OnlyOne, Concerns
    <3>6. Fit(n) => Fit(n)'
      BY <2>4 DEF Prompt!InstallLists, Fit
    <3> HIDE DEF rest
    <3> QED
      BY <3>1, <3>2, <3>3, <3>4, <3>5, <3>6 DEF ToListFit
  <2>5. CASE Prompt!CreateSkill(h, n)
    <3> DEFINE list == IF n \in Prompt!Listed(skills) THEN Prompt!Switched(skills, n, TRUE)
                       ELSE Prompt!Appended(skills, n)
    <3>1. \A m \in Prompt!Names \ {n} : list[m] = skills[m]
      BY ListsKept DEF SkillTypes
    <3>2. /\ handling'[h].at = "save" /\ handling'[h].id = n /\ handling'[h].read = skills
          /\ handling'[h].list = list
      BY <1>a, <2>5 DEF Prompt!CreateSkill, Prompt!To
    <3>3. skillFiles'[n] = "own" /\ (n # Bundle \/ ~removed')
      <4>1. skillFiles'[n] = "own"
        BY <1>a, <2>5 DEF Prompt!CreateSkill
      <4>2. n # Bundle \/ ~removed'
        BY <2>5, Zenon DEF Prompt!CreateSkill
      <4> QED
        BY <4>1, <4>2
    <3>4. Fit(n)'
      BY <3>3 DEF Fit
    <3> HIDE DEF list
    <3> QED
      BY <3>1, <3>2, <3>4 DEF ToListFit
  <2>6. CASE Prompt!RemoveSkill(h, n)
    <3>1. \A m \in Prompt!Names \ {n} : Prompt!Without(skills, n)[m] = skills[m]
      BY ListsKept DEF SkillTypes
    <3>2. n \notin Prompt!Listed(Prompt!Without(skills, n))
      BY ListsKept DEF SkillTypes
    <3>3. /\ handling'[h].at = "save" /\ handling'[h].id = n /\ handling'[h].read = skills
          /\ handling'[h].list = Prompt!Without(skills, n)
      BY <1>a, <2>6 DEF Prompt!RemoveSkill, Prompt!To
    <3> QED
      BY <3>1, <3>2, <3>3 DEF ToListFit, Prompt!Listed
  <2>7. ASSUME NEW o \in BOOLEAN, Prompt!Toggle(h, n, o)
        PROVE  ToListFit(h)'
    <3> DEFINE list == Prompt!Switched(skills, n, o)
    <3>1. \A m \in Prompt!Names \ {n} : list[m] = skills[m]
      BY ListsKept DEF SkillTypes
    <3>2. /\ handling'[h].at = "save" /\ handling'[h].id = n /\ handling'[h].read = skills
          /\ handling'[h].list = list /\ handling[h].at = "free" /\ n \in Prompt!Listed(skills)
      BY <1>a, <2>7 DEF Prompt!Toggle, Prompt!To, Prompt!Accepts, Prompt!NoRequest
    <3>3. OnlyOne(h, n)' => Fit(n)
      BY <1>1, <3>2 DEF OnlyOne, Concerns, ListedFit
    <3>4. Fit(n) => Fit(n)'
      BY <2>7 DEF Prompt!Toggle, Fit
    <3> HIDE DEF list
    <3> QED
      BY <3>1, <3>2, <3>3, <3>4 DEF ToListFit
  <2> QED
    BY <2>1, <2>2, <2>3, <2>4, <2>5, <2>6, <2>7
<1> QED
  BY <1>3, <1>4

LEMMA SavesFit ==
  ASSUME SkillTypes, ListedFit, NEW h \in Handlers, ToListFit(h), Prompt!Saves(h), ~crossing'
  PROVE  ListedFit' /\ \A g \in Handlers : ToListFit(g)'
<1> DEFINE q == handling[h]
<1>1. /\ q \in SkillStates /\ q.at = "save" /\ skills' = q.list
      /\ UNCHANGED <<boot, ships, skillFiles, removed, broken>>
      /\ handling' = [handling EXCEPT ![h] = [at |-> "free"]] /\ handling \in [Handlers -> SkillStates]
  BY DEF SkillTypes, Prompt!Saves, Prompt!To, Prompt!NoRequest
<1>2. Prompt!Changing = {h} /\ q.read = skills
  BY Zenon DEF Prompt!Saves
<1>3. q.id \in Prompt!Names /\ q.list \in SkillLists
  BY <1>1 DEF SkillStates, ToSave
<1>4. \A g \in Handlers \ {h} : handling[g].at = "free"
  <2> SUFFICES ASSUME NEW g \in Handlers \ {h}
               PROVE  handling[g].at = "free"
    OBVIOUS
  <2>1. handling[g] = [at |-> "free"]
    BY <1>2 DEF Prompt!Changing, Prompt!NoRequest
  <2> QED
    BY <2>1
<1>5. \A g \in Handlers : handling'[g].at = "free"
  BY <1>1, <1>4
<1>6. \A g \in Handlers : ToListFit(g)'
  BY <1>5 DEF ToListFit
<1>7. ASSUME NEW n \in Prompt!Names, n \notin broken, n \in Prompt!Listed(q.list)
      PROVE  Fit(n)'
  <2>1. Fit(n) => Fit(n)'
    BY <1>1 DEF Fit
  <2>2. CASE n = q.id
    BY <1>1, <1>4, <1>7, <2>1, <2>2 DEF ToListFit, OnlyOne, Concerns
  <2>3. CASE n # q.id
    <3>1. n \in Prompt!Listed(skills)
      BY <1>1, <1>2, <1>7, <2>3 DEF ToListFit, Prompt!Listed
    <3>2. \A g \in Handlers : ~Concerns(g, n)
      BY <1>4, <2>3 DEF Concerns
    <3> QED
      BY <1>7, <2>1, <3>1, <3>2 DEF ListedFit
  <2> QED
    BY <2>2, <2>3
<1>8. ListedFit'
  BY <1>1, <1>7 DEF ListedFit
<1> QED
  BY <1>6, <1>8

LEMMA StartsFit ==
  ASSUME SkillTypes, SkillTypes', BootHeld, ListedFit, \A g \in Handlers : ToListFit(g),
         \/ Prompt!BootSeeds \/ Prompt!BootLists \/ Prompt!BootFlags \/ Prompt!BootRefreshes
         \/ Prompt!BootRecordsHash \/ Prompt!Die \/ Prompt!Boot
  PROVE  ListedFit' /\ \A g \in Handlers : ToListFit(g)'
<1> USE AddedAssumption
<1>1. \A g \in Handlers : handling'[g].at = "free"
  BY DEF BootHeld, Prompt!BootSeeds, Prompt!BootLists, Prompt!BootFlags, Prompt!BootRefreshes,
         Prompt!BootRecordsHash, Prompt!Die, Prompt!Boot, Prompt!NoRequest
<1>2. \A g \in Handlers : ToListFit(g)'
  BY <1>1 DEF ToListFit
<1>3. ListedFit'
  <2> SUFFICES ASSUME NEW n \in Prompt!Names, n \notin broken', n \in Prompt!Listed(skills')
               PROVE  Fit(n)'
    BY DEF ListedFit, Prompt!Listed
  <2> USE DEF SkillTypes, Prompt!Names, Prompt!Releases
  <2>1. /\ n \notin broken /\ \A h \in Handlers : ~Concerns(h, n)
        /\ n \in Prompt!Listed(skills) \/ (n = Bundle /\ boot = "seed_list" /\ ~removed)
        /\ UNCHANGED removed
    <3>1. CASE Prompt!Die
      <4>1. /\ n \notin broken /\ \A h \in Handlers : ~Concerns(h, n)
        <5>1. n \notin {handling[h].id : h \in Prompt!Changing} /\ n \notin broken
          BY <3>1 DEF Prompt!Die
        <5>2. \A h \in Handlers : handling[h].at # "free" => h \in Prompt!Changing
          BY DEF Prompt!Changing, Prompt!NoRequest
        <5> QED
          BY <5>1, <5>2 DEF Concerns
      <4>2. UNCHANGED <<skills, removed>>
        BY <3>1 DEF Prompt!Die
      <4> QED
        BY <4>1, <4>2
    <3>2. CASE Prompt!BootLists
      <4>1. boot = "seed_list" /\ UNCHANGED <<broken, removed>>
        BY <3>2 DEF Prompt!BootLists
      <4>2. skills' = Prompt!Appended(skills, Bundle)
        BY <3>2 DEF Prompt!BootLists
      <4>3. n = Bundle \/ n \in Prompt!Listed(skills)
        BY <4>2 DEF Prompt!Appended, SkillLists, Prompt!Listed
      <4>4. n = Bundle => ~removed
        BY <4>1 DEF BootHeld
      <4> QED
        BY <4>1, <4>3, <4>4 DEF BootHeld, Concerns
    <3>3. CASE Prompt!BootSeeds \/ Prompt!BootFlags \/ Prompt!BootRefreshes
               \/ Prompt!BootRecordsHash \/ Prompt!Boot
      <4>1. broken \subseteq broken' /\ UNCHANGED <<skills, removed>> /\ boot # "up"
        BY <3>3 DEF Prompt!BootSeeds, Prompt!BootFlags, Prompt!BootRefreshes,
                    Prompt!BootRecordsHash, Prompt!Boot
      <4> QED
        BY <4>1 DEF BootHeld, Concerns
    <3> QED
      BY <3>1, <3>2, <3>3
  <2>2. skillFiles'[n] \notin {"none", "part"} /\ (n = Bundle => ~removed)
    <3>1. skillFiles[n] \notin {"none", "part"} /\ (n = Bundle => ~removed)
      BY <2>1 DEF ListedFit, Fit, BootHeld
    <3>2. skillFiles'[n] = skillFiles[n] \/ skillFiles'[n] = ships
      BY DEF Prompt!BootSeeds, Prompt!BootLists, Prompt!BootFlags, Prompt!BootRefreshes,
             Prompt!BootRecordsHash, Prompt!Die, Prompt!Boot
    <3> QED
      BY <3>1, <3>2
  <2>3. ASSUME n = Bundle, boot' = "up"
        PROVE  skillFiles'[n] \in {ships', "own"}
    <3>1. CASE Prompt!BootRefreshes
      <4>1. Bundle \in Prompt!Listed(skills) /\ boot = "refresh" /\ UNCHANGED ships
        BY <2>1, <2>3, <3>1 DEF Prompt!BootRefreshes
      <4>2. UNCHANGED skillFiles /\ skillFiles[Bundle] # ships /\ ~Prompt!Untouched
        BY <2>3, <3>1, <4>1 DEF Prompt!BootRefreshes
      <4> QED
        BY <2>1, <2>3, <4>1, <4>2 DEF BootHeld, Prompt!Untouched
    <3>2. CASE Prompt!BootRecordsHash
      BY <2>3, <3>2 DEF Prompt!BootRecordsHash, BootHeld
    <3> QED
      BY <2>3, <3>1, <3>2
         DEF Prompt!BootSeeds, Prompt!BootLists, Prompt!BootFlags, Prompt!Die, Prompt!Boot
  <2> QED
    BY <2>1, <2>2, <2>3 DEF Fit
<1> QED
  BY <1>2, <1>3

LEMMA SkillsStep == SkillsIInv /\ [Prompt!Next]_skillVars => SkillsIInv'
<1> SUFFICES ASSUME SkillsIInv, [Prompt!Next]_skillVars
             PROVE  SkillsIInv'
  OBVIOUS
<1>1. SkillTypes' /\ SkillFlags' /\ BootHeld'
  BY SkillTypesStep, SkillFlagsStep, BootHeldStep DEF SkillsIInv
<1>2. ASSUME ~crossing'
      PROVE  ListedFit' /\ \A h \in Handlers : ToListFit(h)'
  <2>1. /\ SkillTypes /\ SkillTypes' /\ BootHeld /\ ListedFit
        /\ \A h \in Handlers : ToListFit(h)
    BY <1>1, <1>2, SkillFlagsStep, Zenon DEF SkillsIInv
  <2>2. Market \in Prompt!Names /\ Bundle \in Prompt!Names
    BY DEF Prompt!Names
  <2>3. ASSUME NEW h \in Handlers, Prompt!Saves(h)
        PROVE  ListedFit' /\ \A g \in Handlers : ToListFit(g)'
    BY <1>2, <2>1, <2>3, SavesFit, Zenon
  <2>4. ASSUME NEW h \in Handlers, handling[h].at \in {"list", "save"}
        PROVE  handling[h].id \in Prompt!Names
    BY <2>1, <2>4 DEF SkillTypes, SkillStates, ToSave
  <2>5. ASSUME NEW h \in Handlers,
               \/ Prompt!InstallWipes(h) \/ Prompt!InstallDownloads(h) \/ Prompt!InstallFails(h)
               \/ Prompt!InstallBundled(h) \/ Prompt!InstallLists(h) \/ Prompt!SaveRefused(h)
        PROVE  ListedFit' /\ \A g \in Handlers : ToListFit(g)'
    <3>1. CASE Prompt!InstallWipes(h) \/ Prompt!InstallDownloads(h) \/ Prompt!InstallFails(h)
      BY <2>1, <2>2, <3>1, RequestsFit, Zenon
    <3>2. CASE Prompt!InstallBundled(h)
      BY <2>1, <2>2, <3>2, RequestsFit, Zenon
    <3>3. CASE Prompt!InstallLists(h)
      <4>1. handling[h].id \in Prompt!Names
        BY <2>4, <3>3 DEF Prompt!InstallLists
      <4> QED
        BY <2>1, <3>3, <4>1, RequestsFit, Zenon
    <3>4. CASE Prompt!SaveRefused(h)
      <4>1. handling[h].id \in Prompt!Names
        BY <2>4, <3>4 DEF Prompt!SaveRefused
      <4> QED
        BY <2>1, <3>4, <4>1, RequestsFit, Zenon
    <3> QED
      BY <2>5, <3>1, <3>2, <3>3, <3>4
  <2>6. ASSUME NEW h \in Handlers, NEW n \in Prompt!Names,
               \/ Prompt!CreateSkill(h, n) \/ Prompt!RemoveSkill(h, n)
               \/ \E o \in BOOLEAN : Prompt!Toggle(h, n, o)
        PROVE  ListedFit' /\ \A g \in Handlers : ToListFit(g)'
    BY <2>1, <2>6, RequestsFit, Zenon
  <2>7. CASE \/ Prompt!BootSeeds \/ Prompt!BootLists \/ Prompt!BootFlags
             \/ Prompt!BootRefreshes \/ Prompt!BootRecordsHash \/ Prompt!Die \/ Prompt!Boot
    BY <2>1, <2>7, StartsFit, Zenon
  <2>8. CASE UNCHANGED skillVars
    BY <2>1, <2>8
       DEF skillVars, ListedFit, Fit, Concerns, ToListFit, OnlyOne, Prompt!Listed
  <2> QED
    BY <2>3, <2>5, <2>6, <2>7, <2>8, Zenon DEF Prompt!Next
<1> QED
  BY <1>1, <1>2, Zenon DEF SkillsIInv

LEMMA SkillsAsHeld ==
  SkillsIInv =>
    Prompt!TypeOK /\ Prompt!RemovedStays /\ Prompt!ListedIsWhole /\ Prompt!RefreshReaches
<1> SUFFICES ASSUME SkillsIInv
             PROVE  /\ Prompt!TypeOK /\ Prompt!RemovedStays /\ Prompt!ListedIsWhole
                    /\ Prompt!RefreshReaches
  OBVIOUS
<1>1. Prompt!TypeOK
  BY DEF SkillsIInv, SkillTypes, SkillFlags, SkillStates, ToSave, SkillLists, Prompt!TypeOK
<1>2. Prompt!Changing = {} => \A h \in Handlers : handling[h].at = "free"
  BY DEF Prompt!Changing, Prompt!NoRequest
<1>3. ASSUME ~crossing, Prompt!Changing = {}
      PROVE  \A n \in Prompt!Listed(skills) \ broken : Fit(n)
  BY <1>2, <1>3 DEF SkillsIInv, ListedFit, Concerns, Prompt!Listed
<1>4. Prompt!RemovedStays
  BY <1>3 DEF Prompt!RemovedStays, Fit
<1>5. Prompt!ListedIsWhole
  BY <1>3 DEF Prompt!ListedIsWhole, Fit
<1>6. Prompt!RefreshReaches
  BY <1>3 DEF Prompt!RefreshReaches, Fit
<1> QED
  BY <1>1, <1>4, <1>5, <1>6
-----------------------------------------------------------------------------
(* The extensions: their sources, the list, and what a request or a reload may be in
   the middle of. *)
Sources == {Ext!None} \cup [by : {"v1", "user"}, v : Ext!VersionNumbers]
Entries == [on : BOOLEAN, v : 0 .. MaxVersion]
IsList(f) == DOMAIN f \subseteq Ext!Ext /\ f \in [DOMAIN f -> Entries]
ExtLists == UNION {[D -> Entries] : D \in SUBSET Ext!Ext}
ToWrite ==
  [at : {"write"}, id : Ext!Ext, v : Ext!VersionNumbers, on : BOOLEAN, read : ExtLists]
ToStore == [at : {"listed"}, id : Ext!Ext, v : 0 .. MaxVersion, on : BOOLEAN, read : ExtLists]
ChangeStates ==
  [at : {"free", "reload", "loading"}] \cup ToWrite \cup ToStore \cup [at : {"dropped"}, id : Ext!Ext]
    \cup [at : {"call"}, on : SUBSET Ext!Ext]
FoundSources == UNION {[D -> Sources] : D \in SUBSET Ext!Ext}
Loads ==
  [of : Changes \cup {"open"}, on : SUBSET Ext!Ext, found : FoundSources,
   at : {"import", "install"}]

FileTypes ==
  /\ stage \in {"down", "write", "manifest", "list", "up"} /\ shipped \in Ext!VersionNumbers
  /\ DOMAIN manifest \subseteq Bundled /\ \A b \in DOMAIN manifest : manifest[b].by = "v1"
  /\ source \in [Ext!Ext -> Sources] /\ listed \in ExtLists
  /\ newest \in [Ext!Ext -> 0 .. MaxVersion]
ChangeTypes ==
  /\ request \in [Changes -> ChangeStates]
  /\ sidecar \in {"down", "opening", "up"} /\ loads \subseteq Loads
  /\ DOMAIN installed \subseteq Ext!Ext
  /\ starts \in 0 .. MaxStarts /\ asked \in 0 .. MaxChanges
ExtFlags == told \in BOOLEAN /\ overlap \in BOOLEAN /\ halved \in BOOLEAN

(* Nothing goes on before the start is over, and nothing is loaded in a sidecar that is
   down. *)
UpHeld ==
  /\ stage # "up" => sidecar = "down" /\ \A r \in Changes : request[r].at = "free"
  /\ sidecar = "down" => loads = {}
  /\ sidecar # "up" => ~told
  /\ sidecar = "opening" => \E l \in loads : loads = {l}
  /\ stage = "down" => starts < MaxStarts

(* A bundled source is the user's, or what the manifest says or is about to say. *)
BundledHeld(b) ==
  /\ stage \in {"manifest", "list", "up"} => source[b] # Ext!None
  /\ ~halved /\ source[b].by = "v1" =>
       IF stage = "manifest" THEN source[b] = Ext!By("v1", shipped)
       ELSE b \in DOMAIN manifest => source[b] = manifest[b]
  /\ ~halved /\ stage \in {"list", "up"} =>
       source[b].by = "user" \/ source[b] = Ext!By("v1", shipped)

(* Where no two requests crossed on an extension, the list has its newest version, and
   what a request is to store has it, unless another is about to store it. *)
Version(list, e) == IF e \in DOMAIN list THEN list[e].v ELSE 0
Storing(r, e) == request[r].at = "listed" /\ request[r].id = e
ToStoreIs(q, e) == IF e = q.id THEN q.v ELSE Version(q.read, e)
NewestHeld(e) ==
  /\ source[e] = Ext!None => newest[e] = 0
  /\ e \notin clashed =>
       /\ source[e].by = "user" => source[e].v = newest[e]
       /\ (\A r \in Changes : ~Storing(r, e)) => newest[e] <= Version(listed, e)
       /\ \A r \in Changes :
            /\ request[r].at \in {"write", "listed"}
               /\ (\A q \in Changes \ {r} : ~Storing(q, e))
                 => newest[e] <= ToStoreIs(request[r], e)
            /\ request[r].at = "dropped" /\ request[r].id = e => newest[e] = 0

(* A reload that nothing overlaps is of what is enabled and on disk; so is what runs
   after it, until something is changed. *)
EnabledSources == [e \in Ext!Enabled |-> source[e]]
ReloadHeld ==
  ~overlap =>
    /\ \A r \in Changes : request[r].at = "call" =>
         sidecar = "up" /\ loads = {} /\ request[r].on = Ext!Enabled /\ Ext!Reloading = {r}
    /\ sidecar = "up" => \A l \in loads :
         /\ loads = {l} /\ l.on = Ext!Enabled
         /\ l.at = "install" => l.found = EnabledSources
RunsEnabled ==
  ~overlap /\ sidecar = "up" /\ told /\ loads = {} /\ clashed = {}
  /\ (\A r \in Changes : request[r].at \notin {"call", "reload", "listed", "dropped"})
    => installed = EnabledSources

ExtensionsIInv ==
  /\ FileTypes /\ ChangeTypes /\ ExtFlags /\ UpHeld /\ overwritten = {}
  /\ \A b \in Bundled : BundledHeld(b)
  /\ \A e \in Ext!Ext : NewestHeld(e)
  /\ ReloadHeld /\ RunsEnabled
-----------------------------------------------------------------------------

LEMMA ListsAre == \A f : f \in ExtLists <=> IsList(f)
BY DEF ExtLists, IsList

LEMMA ListsMade ==
  ASSUME NEW D, D \subseteq Ext!Ext, NEW f, f = [e \in D |-> f[e]], \A e \in D : f[e] \in Entries
  PROVE  f \in ExtLists
<1>1. f \in [D -> Entries]
  OBVIOUS
<1> QED
  BY <1>1 DEF ExtLists

LEMMA ReconciledIs ==
  ASSUME FileTypes
  PROVE  /\ Ext!Reconciled \in ExtLists /\ DOMAIN Ext!Reconciled = Ext!OnDisk
         /\ Ext!OnDisk \subseteq Ext!Ext /\ Ext!Enabled \subseteq Ext!OnDisk
         /\ \A e \in Ext!OnDisk : /\ Ext!Reconciled[e] \in Entries
                                  /\ Ext!Reconciled[e].v = Version(listed, e)
<1>1. IsList(listed)
  BY ListsAre DEF FileTypes
<1>2. DOMAIN Ext!Reconciled = Ext!OnDisk /\ Ext!OnDisk \subseteq Ext!Ext
  BY DEF Ext!Reconciled, Ext!OnDisk
<1>3. [on |-> FALSE, v |-> 0] \in Entries
  BY AddedAssumption DEF Entries
<1>4. ASSUME NEW e \in Ext!OnDisk
      PROVE  Ext!Reconciled[e] \in Entries /\ Ext!Reconciled[e].v = Version(listed, e)
  BY <1>1, <1>3 DEF IsList, Ext!Reconciled, Version
<1>5. Ext!Reconciled \in ExtLists
  BY <1>2, <1>4, ListsMade DEF Ext!Reconciled
<1> QED
  BY <1>2, <1>4, <1>5 DEF Ext!Enabled

LEMMA ExtensionsInit == Ext!Init => ExtensionsIInv
<1> SUFFICES ASSUME Ext!Init
             PROVE  ExtensionsIInv
  OBVIOUS
<1> USE AddedAssumption
<1>0. <<>> \in ExtLists
  <2>1. <<>> \in [{} -> Entries]
    OBVIOUS
  <2> QED
    BY <2>1 DEF ExtLists
<1>1. /\ stage = "write" /\ shipped = 1 /\ manifest = <<>>
      /\ source = [e \in Ext!Ext |-> Ext!None] /\ listed = <<>>
      /\ request = [r \in Changes |-> Ext!Free] /\ sidecar = "down" /\ loads = {}
      /\ installed = <<>> /\ starts = 0 /\ asked = 0 /\ clashed = {} /\ overwritten = {}
      /\ newest = [e \in Ext!Ext |-> 0]
  BY DEF Ext!Init
<1>2. told = FALSE /\ overlap = FALSE /\ halved = FALSE
  BY Zenon DEF Ext!Init
<1>3. FileTypes /\ ChangeTypes
  BY <1>0, <1>1
     DEF FileTypes, ChangeTypes, Sources, Ext!VersionNumbers, Ext!Ext, ChangeStates, Ext!Free
<1>4. UpHeld /\ (\A b \in Bundled : BundledHeld(b)) /\ \A e \in Ext!Ext : NewestHeld(e)
  BY <1>1, <1>2
     DEF UpHeld, BundledHeld, NewestHeld, Ext!None, Version, Storing, Ext!Free, Ext!Ext
<1>5. ReloadHeld /\ RunsEnabled
  BY <1>1, <1>2 DEF ReloadHeld, RunsEnabled, Ext!Free
<1> QED
  BY <1>1, <1>2, <1>3, <1>4, <1>5 DEF ExtensionsIInv, ExtFlags

LEMMA FileTypesStep ==
  ASSUME FileTypes, ChangeTypes, [Ext!Next]_extVars
  PROVE  FileTypes'
<1> USE AddedAssumption DEF FileTypes, Ext!diskVars
<1>a. Ext!VersionNumbers \subseteq 0 .. MaxVersion /\ MaxVersion \in Ext!VersionNumbers
  BY DEF Ext!VersionNumbers
<1>1. CASE Ext!BootWrites
  <2>1. Ext!By("v1", shipped) \in Sources
    BY DEF Sources, Ext!By
  <2> QED
    BY <1>1, <2>1 DEF Ext!BootWrites
<1>2. CASE Ext!BootRecords
  <2> DEFINE written == {b \in Bundled : source[b] = Ext!By("v1", shipped)}
  <2>1. /\ stage' = "list" /\ UNCHANGED <<shipped, source, listed, newest>>
        /\ manifest' = [b \in written \cup DOMAIN manifest |->
                          IF b \in written THEN source[b] ELSE manifest[b]]
    BY <1>2 DEF Ext!BootRecords
  <2> QED
    BY <2>1 DEF Ext!By
<1>3. CASE Ext!BootLists
  <2>1. IsList(listed)
    BY ListsAre
  <2>2. [on |-> TRUE, v |-> 0] \in Entries
    BY DEF Entries
  <2>3. /\ listed' = [e \in DOMAIN listed \cup Bundled |->
                        IF e \in DOMAIN listed THEN listed[e] ELSE [on |-> TRUE, v |-> 0]]
        /\ stage' = "up" /\ UNCHANGED <<shipped, manifest, source, newest>>
    BY <1>3 DEF Ext!BootLists
  <2>4. listed' \in ExtLists
    BY <2>1, <2>2, <2>3, ListsMade DEF IsList, Ext!Ext
  <2> QED
    BY <2>3, <2>4
<1>4. CASE Ext!Stop
  BY <1>4 DEF Ext!Stop
<1>5. CASE Ext!Start
  BY <1>5, <1>a DEF Ext!Start
<1>6. CASE Ext!SidecarOpens
  BY <1>6 DEF Ext!SidecarOpens
<1>7. CASE Ext!SidecarDies
  BY <1>7 DEF Ext!SidecarDies
<1>8. ASSUME NEW r \in Changes, NEW e \in Ext!Ext, NEW v \in Ext!VersionNumbers,
             NEW o \in BOOLEAN, Ext!SaveChecks(r, e, v, o)
      PROVE  FileTypes'
  BY <1>8 DEF Ext!SaveChecks
<1>9. ASSUME NEW r \in Changes, NEW e \in Ext!Ext, Ext!ToggleReads(r, e)
      PROVE  FileTypes'
  BY <1>9 DEF Ext!ToggleReads
<1>10. ASSUME NEW r \in Changes, NEW e \in Ext!Ext, Ext!RemoveDir(r, e)
       PROVE  FileTypes'
  BY <1>10 DEF Ext!RemoveDir, Sources
<1>11. ASSUME NEW r \in Changes, Ext!SaveWrites(r)
       PROVE  FileTypes'
  <2> DEFINE e == request[r].id  v == request[r].v
  <2>1. request[r] \in ToWrite
    BY <1>11 DEF Ext!SaveWrites, ChangeTypes, ChangeStates, ToStore
  <2>2. e \in Ext!Ext /\ v \in Ext!VersionNumbers /\ v \in 0 .. MaxVersion
    BY <2>1, <1>a DEF ToWrite
  <2>3. /\ source' = [source EXCEPT ![e] = Ext!By("user", v)]
        /\ newest' = [newest EXCEPT ![e] = IF v > newest[e] THEN v ELSE newest[e]]
        /\ UNCHANGED <<stage, shipped, manifest, listed>>
    BY <1>11 DEF Ext!SaveWrites
  <2>4. Ext!By("user", v) \in Sources
    BY <2>2 DEF Ext!By, Sources
  <2> QED
    BY <2>2, <2>3, <2>4
<1>12. ASSUME NEW r \in Changes, Ext!RemoveLists(r)
       PROVE  FileTypes'
  <2>1. /\ listed' = [e \in Ext!OnDisk \ {request[r].id} |-> Ext!Reconciled[e]]
        /\ UNCHANGED <<stage, shipped, manifest, source, newest>>
    BY <1>12 DEF Ext!RemoveLists
  <2>2. listed' \in ExtLists
    BY <2>1, ReconciledIs, ListsMade
  <2> QED
    BY <2>1, <2>2
<1>13. ASSUME NEW r \in Changes, Ext!ListSaves(r)
       PROVE  FileTypes'
  <2> DEFINE q == request[r]
  <2>1. q \in ToStore
    BY <1>13 DEF Ext!ListSaves, ChangeTypes, ChangeStates, ToWrite
  <2>2. /\ IsList(q.read) /\ q.id \in Ext!Ext /\ [on |-> q.on, v |-> q.v] \in Entries
    BY <2>1, ListsAre DEF ToStore, Entries
  <2>3. /\ listed' = [e \in DOMAIN q.read \cup {q.id} |->
                        IF e = q.id THEN [on |-> q.on, v |-> q.v] ELSE q.read[e]]
        /\ UNCHANGED <<stage, shipped, manifest, source, newest>>
    BY <1>13 DEF Ext!ListSaves
  <2> HIDE DEF q
  <2>4. listed' \in ExtLists
    BY <2>2, <2>3, ListsMade DEF IsList
  <2> QED
    BY <2>3, <2>4
<1>14. ASSUME NEW r \in Changes, Ext!ListRefused(r)
       PROVE  FileTypes'
  BY <1>14 DEF Ext!ListRefused
<1>15. ASSUME NEW r \in Changes, Ext!ReloadReads(r) \/ Ext!ReloadSkipped(r)
       PROVE  FileTypes'
  BY <1>15 DEF Ext!ReloadReads, Ext!ReloadSkipped
<1>16. ASSUME NEW r \in Changes, Ext!ReloadCalls(r) \/ Ext!ReloadTimesOut(r)
       PROVE  FileTypes'
  BY <1>16 DEF Ext!ReloadCalls, Ext!ReloadTimesOut
<1>17. ASSUME NEW l \in loads, Ext!LoadImports(l) \/ Ext!LoadInstalls(l)
       PROVE  FileTypes'
  BY <1>17 DEF Ext!LoadImports, Ext!LoadInstalls
<1>18. CASE UNCHANGED extVars
  BY <1>18 DEF extVars
<1> QED
  BY <1>1, <1>2, <1>3, <1>4, <1>5, <1>6, <1>7, <1>8, <1>9, <1>10, <1>11, <1>12, <1>13, <1>14,
     <1>15, <1>16, <1>17, <1>18
     DEF Ext!Next

LEMMA ChangeTypesStep ==
  ASSUME FileTypes, ChangeTypes, UpHeld, [Ext!Next]_extVars
  PROVE  ChangeTypes'
<1> USE AddedAssumption DEF ChangeTypes, Ext!Free, Ext!Ask, Ext!sideVars
<1>a. [at |-> "free"] \in ChangeStates /\ [at |-> "reload"] \in ChangeStates
      /\ [at |-> "loading"] \in ChangeStates
  BY DEF ChangeStates
<1>b. <<>> \in FoundSources
  <2>1. <<>> \in [{} -> Sources]
    OBVIOUS
  <2> QED
    BY <2>1 DEF FoundSources
<1>1. CASE Ext!BootWrites \/ Ext!BootRecords \/ Ext!BootLists
  BY <1>1 DEF Ext!BootWrites, Ext!BootRecords, Ext!BootLists
<1>2. CASE Ext!Stop
  BY <1>2, <1>a DEF Ext!Stop
<1>3. CASE Ext!Start
  BY <1>3 DEF Ext!Start, UpHeld
<1>4. CASE Ext!SidecarOpens
  <2>1. [of |-> "open", on |-> Ext!Ext, found |-> <<>>, at |-> "import"] \in Loads
    BY <1>b DEF Loads
  <2> QED
    BY <1>4, <2>1 DEF Ext!SidecarOpens
<1>5. CASE Ext!SidecarDies
  BY <1>5, <1>a DEF Ext!SidecarDies
<1>6. ASSUME NEW r \in Changes, NEW e \in Ext!Ext, NEW v \in Ext!VersionNumbers,
             NEW o \in BOOLEAN, Ext!SaveChecks(r, e, v, o)
      PROVE  ChangeTypes'
  <2> DEFINE q == [at |-> "write", id |-> e, v |-> v, on |-> o, read |-> Ext!Reconciled]
  <2>1. q \in ToWrite
    BY ReconciledIs DEF ToWrite
  <2>2. q \in ChangeStates
    BY <2>1 DEF ChangeStates
  <2>3. request' = [request EXCEPT ![r] = q] /\ asked' = asked + 1 /\ asked < MaxChanges
        /\ UNCHANGED <<sidecar, loads, installed, starts>>
    BY <1>6 DEF Ext!SaveChecks, Ext!Goes, Ext!Idle
  <2> HIDE DEF q
  <2> QED
    BY <2>2, <2>3
<1>7. ASSUME NEW r \in Changes, NEW e \in Ext!Ext, Ext!ToggleReads(r, e)
      PROVE  ChangeTypes'
  <2> DEFINE q == [at |-> "listed", id |-> e, v |-> Ext!Reconciled[e].v,
                   on |-> ~Ext!Reconciled[e].on, read |-> Ext!Reconciled]
  <2>1. q \in ToStore
    <3>1. e \in Ext!OnDisk
      BY <1>7 DEF Ext!ToggleReads
    <3>2. Ext!Reconciled[e].v \in 0 .. MaxVersion /\ Ext!Reconciled \in ExtLists
      BY <3>1, ReconciledIs DEF Entries
    <3> QED
      BY <3>2 DEF ToStore
  <2>2. q \in ChangeStates
    BY <2>1 DEF ChangeStates
  <2>3. request' = [request EXCEPT ![r] = q] /\ asked' = asked + 1 /\ asked < MaxChanges
        /\ UNCHANGED <<sidecar, loads, installed, starts>>
    BY <1>7 DEF Ext!ToggleReads, Ext!Goes, Ext!Idle
  <2> HIDE DEF q
  <2> QED
    BY <2>2, <2>3
<1>8. ASSUME NEW r \in Changes, NEW e \in Ext!Ext, Ext!RemoveDir(r, e)
      PROVE  ChangeTypes'
  <2>1. [at |-> "dropped", id |-> e] \in ChangeStates
    BY DEF ChangeStates
  <2>2. request' = [request EXCEPT ![r] = [at |-> "dropped", id |-> e]]
        /\ asked' = asked + 1 /\ asked < MaxChanges
        /\ UNCHANGED <<sidecar, loads, installed, starts>>
    BY <1>8 DEF Ext!RemoveDir, Ext!Goes, Ext!Idle
  <2> QED
    BY <2>1, <2>2
<1>9. ASSUME NEW r \in Changes, Ext!SaveWrites(r)
      PROVE  ChangeTypes'
  <2>1. request[r] \in ToWrite
    BY <1>9 DEF Ext!SaveWrites, ChangeStates, ToStore
  <2>2. [request[r] EXCEPT !.at = "listed"] \in ToStore
    BY <2>1 DEF ToWrite, ToStore, Ext!VersionNumbers
  <2>3. [request[r] EXCEPT !.at = "listed"] \in ChangeStates
    BY <2>2 DEF ChangeStates
  <2>4. request' = [request EXCEPT ![r] = [request[r] EXCEPT !.at = "listed"]]
        /\ UNCHANGED <<sidecar, loads, installed, starts, asked>>
    BY <1>9 DEF Ext!SaveWrites, Ext!Goes
  <2> QED
    BY <2>3, <2>4
<1>10. ASSUME NEW r \in Changes, Ext!RemoveLists(r) \/ Ext!ListSaves(r)
       PROVE  ChangeTypes'
  BY <1>10, <1>a DEF Ext!RemoveLists, Ext!ListSaves, Ext!Goes
<1>11. ASSUME NEW r \in Changes, Ext!ListRefused(r)
       PROVE  ChangeTypes'
  BY <1>11, <1>a DEF Ext!ListRefused, Ext!Goes
<1>12. ASSUME NEW r \in Changes, Ext!ReloadReads(r)
       PROVE  ChangeTypes'
  <2>1. [at |-> "call", on |-> Ext!Enabled] \in ChangeStates
    BY ReconciledIs DEF ChangeStates
  <2> QED
    BY <1>12, <2>1 DEF Ext!ReloadReads, Ext!ReloadAsked, Ext!Idle, Ext!Goes
<1>13. ASSUME NEW r \in Changes, Ext!ReloadSkipped(r) \/ Ext!ReloadTimesOut(r)
       PROVE  ChangeTypes'
  BY <1>13, <1>a DEF Ext!ReloadSkipped, Ext!ReloadTimesOut, Ext!Goes
<1>14. ASSUME NEW r \in Changes, Ext!ReloadCalls(r)
       PROVE  ChangeTypes'
  <2> DEFINE l == [of |-> r, on |-> request[r].on, found |-> <<>>, at |-> "import"]
  <2>1. request[r].on \subseteq Ext!Ext
    BY <1>14 DEF Ext!ReloadCalls, ChangeStates, ToWrite, ToStore
  <2>2. l \in Loads
    BY <1>b, <2>1 DEF Loads
  <2>3. loads' = loads \cup {l} /\ request' = [request EXCEPT ![r] = [at |-> "loading"]]
        /\ UNCHANGED <<sidecar, installed, starts, asked>>
    BY <1>14 DEF Ext!ReloadCalls, Ext!Goes
  <2> HIDE DEF l
  <2> QED
    BY <1>a, <2>2, <2>3
<1>15. ASSUME NEW l \in loads, Ext!LoadImports(l)
       PROVE  ChangeTypes'
  <2> DEFINE k == [l EXCEPT !.at = "install", !.found = Ext!Imported(l)]
  <2>1. l \in Loads
    OBVIOUS
  <2>2. Ext!Imported(l) \in [Ext!OnDisk \cap l.on -> Sources]
    BY ReconciledIs DEF Ext!Imported, FileTypes
  <2>3. Ext!Imported(l) \in FoundSources
    <3>1. Ext!OnDisk \cap l.on \in SUBSET Ext!Ext
      BY ReconciledIs
    <3> QED
      BY <2>2, <3>1 DEF FoundSources
  <2>4. k \in Loads
    BY <2>1, <2>3 DEF Loads
  <2>5. loads' = (loads \ {l}) \cup {k} /\ UNCHANGED <<sidecar, installed, request, starts, asked>>
    BY <1>15 DEF Ext!LoadImports
  <2> HIDE DEF k
  <2> QED
    BY <2>4, <2>5
<1>16. ASSUME NEW l \in loads, Ext!LoadInstalls(l)
       PROVE  ChangeTypes'
  <2>1. DOMAIN l.found \subseteq Ext!Ext
    BY DEF Loads, FoundSources
  <2>2. loads' = loads \ {l} /\ installed' = l.found /\ sidecar' = "up"
        /\ UNCHANGED <<starts, asked>>
        /\ request' = [r \in Changes |->
             IF r = l.of /\ request[r].at = "loading" THEN [at |-> "free"] ELSE request[r]]
    BY <1>16 DEF Ext!LoadInstalls
  <2> QED
    BY <1>a, <2>1, <2>2
<1>17. CASE UNCHANGED extVars
  BY <1>17 DEF extVars
<1> QED
  BY <1>1, <1>2, <1>3, <1>4, <1>5, <1>6, <1>7, <1>8, <1>9, <1>10, <1>11, <1>12, <1>13, <1>14,
     <1>15, <1>16, <1>17
     DEF Ext!Next

(* A change or a start in which a reload is under way, or that ends one, is noted. *)
LEMMA ExtFlagsStep ==
  ASSUME ExtFlags, [Ext!Next]_extVars
  PROVE  ExtFlags'
<1> USE DEF ExtFlags, Ext!Disturbed, Ext!diskVars, Ext!sideVars
<1>1. CASE Ext!BootWrites \/ Ext!BootRecords \/ Ext!BootLists \/ Ext!Start \/ Ext!SidecarOpens
  BY <1>1, Zenon
     DEF Ext!BootWrites, Ext!BootRecords, Ext!BootLists, Ext!Start, Ext!SidecarOpens
<1>2. CASE Ext!Stop \/ Ext!SidecarDies
  BY <1>2, Zenon DEF Ext!Stop, Ext!SidecarDies
<1>3. ASSUME NEW r \in Changes, NEW e \in Ext!Ext, NEW v \in Ext!VersionNumbers,
             NEW o \in BOOLEAN, Ext!SaveChecks(r, e, v, o)
      PROVE  ExtFlags'
  BY <1>3, Zenon DEF Ext!SaveChecks
<1>4. ASSUME NEW r \in Changes, NEW e \in Ext!Ext,
             Ext!ToggleReads(r, e) \/ Ext!RemoveDir(r, e)
      PROVE  ExtFlags'
  BY <1>4, Zenon DEF Ext!ToggleReads, Ext!RemoveDir
<1>5. ASSUME NEW r \in Changes,
             Ext!SaveWrites(r) \/ Ext!RemoveLists(r) \/ Ext!ListSaves(r) \/ Ext!ListRefused(r)
      PROVE  ExtFlags'
  BY <1>5, Zenon DEF Ext!SaveWrites, Ext!RemoveLists, Ext!ListSaves, Ext!ListRefused
<1>6. ASSUME NEW r \in Changes,
             \/ Ext!ReloadReads(r) \/ Ext!ReloadSkipped(r) \/ Ext!ReloadCalls(r)
             \/ Ext!ReloadTimesOut(r)
      PROVE  ExtFlags'
  BY <1>6, Zenon
     DEF Ext!ReloadReads, Ext!ReloadSkipped, Ext!ReloadCalls, Ext!ReloadTimesOut
<1>7. ASSUME NEW l \in loads, Ext!LoadImports(l) \/ Ext!LoadInstalls(l)
      PROVE  ExtFlags'
  BY <1>7, Zenon DEF Ext!LoadImports, Ext!LoadInstalls
<1>8. CASE UNCHANGED extVars
  BY <1>8, Zenon DEF extVars
<1> QED
  BY <1>1, <1>2, <1>3, <1>4, <1>5, <1>6, <1>7, <1>8, Zenon DEF Ext!Next

LEMMA UpHeldStep ==
  ASSUME ChangeTypes, ExtFlags, UpHeld, [Ext!Next]_extVars
  PROVE  UpHeld'
<1> USE DEF Ext!Free, Ext!sideVars, Ext!diskVars
<1>0. /\ stage # "up" => sidecar = "down" /\ \A r \in Changes : request[r].at = "free"
      /\ sidecar = "down" => loads = {}
      /\ sidecar # "up" => ~told
      /\ sidecar = "opening" => \E l \in loads : loads = {l}
      /\ stage = "down" => starts < MaxStarts
      /\ request \in [Changes -> ChangeStates] /\ starts \in 0 .. MaxStarts
  BY DEF UpHeld, ChangeTypes
<1>1. CASE Ext!BootWrites \/ Ext!BootRecords \/ Ext!BootLists
  BY <1>0, <1>1 DEF Ext!BootWrites, Ext!BootRecords, Ext!BootLists, UpHeld
<1>2. CASE Ext!Stop
  <2>1. /\ stage' = "down" /\ sidecar' = "down" /\ loads' = {} /\ starts < MaxStarts
        /\ starts' = starts /\ request' = [r \in Changes |-> [at |-> "free"]]
    BY <1>2 DEF Ext!Stop
  <2>2. ~told'
    BY <1>2, Zenon DEF Ext!Stop
  <2> QED
    BY <2>1, <2>2 DEF UpHeld
<1>3. CASE Ext!Start
  BY <1>0, <1>3 DEF Ext!Start, UpHeld
<1>4. CASE Ext!SidecarOpens
  BY <1>0, <1>4 DEF Ext!SidecarOpens, UpHeld
<1>5. CASE Ext!SidecarDies
  <2>1. /\ stage = "up" /\ stage' = "up" /\ sidecar' = "down" /\ loads' = {}
    BY <1>0, <1>5 DEF Ext!SidecarDies
  <2>2. ~told'
    BY <1>5, Zenon DEF Ext!SidecarDies
  <2> QED
    BY <2>1, <2>2 DEF UpHeld
<1>6. ASSUME NEW r \in Changes, NEW e \in Ext!Ext,
             \/ \E v \in Ext!VersionNumbers, o \in BOOLEAN : Ext!SaveChecks(r, e, v, o)
             \/ Ext!ToggleReads(r, e) \/ Ext!RemoveDir(r, e)
      PROVE  UpHeld'
  <2>1. stage = "up" /\ UNCHANGED <<stage, sidecar, loads, told, starts>>
    BY <1>6 DEF Ext!SaveChecks, Ext!ToggleReads, Ext!RemoveDir, Ext!Idle
  <2> QED
    BY <1>0, <2>1 DEF UpHeld
<1>7. ASSUME NEW r \in Changes,
             \/ Ext!SaveWrites(r) \/ Ext!RemoveLists(r) \/ Ext!ListSaves(r)
             \/ Ext!ListRefused(r) \/ Ext!ReloadSkipped(r) \/ Ext!ReloadTimesOut(r)
      PROVE  UpHeld'
  <2>1. request[r].at # "free" /\ UNCHANGED <<stage, sidecar, loads, told, starts>>
    BY <1>7
       DEF Ext!SaveWrites, Ext!RemoveLists, Ext!ListSaves, Ext!ListRefused,
           Ext!ReloadSkipped, Ext!ReloadTimesOut
  <2> QED
    BY <1>0, <2>1 DEF UpHeld
<1>8. ASSUME NEW r \in Changes, Ext!ReloadReads(r)
      PROVE  UpHeld'
  <2>1. sidecar = "up" /\ UNCHANGED <<stage, sidecar, loads, told, starts>>
    BY <1>8 DEF Ext!ReloadReads
  <2> QED
    BY <1>0, <2>1 DEF UpHeld
<1>9. ASSUME NEW r \in Changes, Ext!ReloadCalls(r)
      PROVE  UpHeld'
  <2>1. sidecar = "up" /\ UNCHANGED <<stage, sidecar, starts>>
    BY <1>9 DEF Ext!ReloadCalls
  <2> QED
    BY <1>0, <2>1 DEF UpHeld
<1>10. ASSUME NEW l \in loads, Ext!LoadImports(l)
       PROVE  UpHeld'
  <2>1. UNCHANGED <<stage, sidecar, told, request, starts>>
        /\ loads' = (loads \ {l}) \cup {[l EXCEPT !.at = "install", !.found = Ext!Imported(l)]}
    BY <1>10 DEF Ext!LoadImports
  <2> QED
    BY <1>0, <2>1 DEF UpHeld
<1>11. ASSUME NEW l \in loads, Ext!LoadInstalls(l)
       PROVE  UpHeld'
  <2>1. sidecar' = "up" /\ stage' = stage
    BY <1>11 DEF Ext!LoadInstalls
  <2> QED
    BY <1>0, <2>1 DEF UpHeld
<1>12. CASE UNCHANGED extVars
  BY <1>0, <1>12 DEF extVars, UpHeld
<1> QED
  BY <1>1, <1>2, <1>3, <1>4, <1>5, <1>6, <1>7, <1>8, <1>9, <1>10, <1>11, <1>12 DEF Ext!Next

(* What a start writes, records and lists. *)
LEMMA BundledStep ==
  ASSUME FileTypes, ChangeTypes, ExtFlags, UpHeld, overwritten = {},
         \A b \in Bundled : BundledHeld(b), [Ext!Next]_extVars
  PROVE  overwritten' = {} /\ \A b \in Bundled : BundledHeld(b)'
<1> USE AddedAssumption DEF FileTypes, Ext!diskVars
<1>0. ASSUME NEW b \in Bundled
      PROVE  /\ b \in Ext!Ext /\ b \notin Own /\ source[b] \in Sources
             /\ b \in DOMAIN manifest => manifest[b].by = "v1"
             /\ BundledHeld(b)
  BY DEF Ext!Ext
<1>s. UNCHANGED <<stage, shipped, manifest, source, halved>> =>
        \A b \in Bundled : BundledHeld(b)'
  <2> SUFFICES ASSUME UNCHANGED <<stage, shipped, manifest, source, halved>>,
                      NEW b \in Bundled
               PROVE  BundledHeld(b)'
    OBVIOUS
  <2> QED
    BY <1>0 DEF BundledHeld
<1>1. CASE Ext!BootWrites
  <2>1. /\ stage = "write" /\ stage' = "manifest" /\ UNCHANGED <<shipped, manifest>>
        /\ source' = [e \in Ext!Ext |->
             IF e \in Ext!Rewritten THEN Ext!By("v1", shipped) ELSE source[e]]
        /\ overwritten' = overwritten \cup
             {b \in Ext!Rewritten : Ext!Tracked(b) /\ source[b].by = "user"}
    BY <1>1 DEF Ext!BootWrites
  <2>2. halved' = halved
    BY <1>1, Zenon DEF Ext!BootWrites
  <2>3. ASSUME NEW b \in Ext!Rewritten, Ext!Tracked(b) PROVE source[b].by # "user"
    BY <1>0, <2>3 DEF Ext!Rewritten, Ext!Touched, Ext!Tracked, Ext!None
  <2>4. ASSUME NEW b \in Bundled PROVE BundledHeld(b)'
    <3>1. CASE b \in Ext!Rewritten
      BY <1>0, <2>1, <2>2, <3>1 DEF BundledHeld, Ext!By, Ext!None
    <3>2. CASE b \notin Ext!Rewritten
      <4>1. source[b] # Ext!None /\ b \in DOMAIN manifest /\ source[b] # manifest[b]
            /\ source'[b] = source[b]
        BY <1>0, <2>1, <3>2 DEF Ext!Rewritten, Ext!Touched, Ext!Tracked
      <4> QED
        BY <1>0, <2>1, <2>2, <4>1 DEF BundledHeld
    <3> QED
      BY <3>1, <3>2
  <2> QED
    BY <2>1, <2>3, <2>4
<1>2. CASE Ext!BootRecords
  <2> DEFINE written == {b \in Bundled : source[b] = Ext!By("v1", shipped)}
  <2>1. /\ stage = "manifest" /\ stage' = "list"
        /\ UNCHANGED <<shipped, source, overwritten>>
        /\ manifest' = [b \in written \cup DOMAIN manifest |->
                          IF b \in written THEN source[b] ELSE manifest[b]]
    BY <1>2 DEF Ext!BootRecords
  <2>2. halved' = halved
    BY <1>2, Zenon DEF Ext!BootRecords
  <2>3. ASSUME NEW b \in Bundled PROVE BundledHeld(b)'
    BY <1>0, <2>1, <2>2 DEF BundledHeld, Sources, Ext!None
  <2> QED
    BY <2>1, <2>3
<1>3. CASE Ext!BootLists
  <2>1. /\ stage = "list" /\ stage' = "up"
        /\ UNCHANGED <<shipped, source, manifest, overwritten>>
    BY <1>3 DEF Ext!BootLists
  <2>2. halved' = halved
    BY <1>3, Zenon DEF Ext!BootLists
  <2> QED
    BY <1>0, <2>1, <2>2 DEF BundledHeld
<1>4. CASE Ext!Stop
  <2>1. /\ stage # "down" /\ stage' = "down"
        /\ UNCHANGED <<shipped, source, manifest, overwritten>>
    BY <1>4 DEF Ext!Stop
  <2>2. halved' = (halved \/ stage = "manifest")
    BY <1>4, Zenon DEF Ext!Stop
  <2> QED
    BY <1>0, <2>1, <2>2 DEF BundledHeld, ExtFlags
<1>5. CASE Ext!Start
  <2>1. /\ stage = "down" /\ stage' = "write" /\ UNCHANGED <<source, manifest, overwritten>>
    BY <1>5 DEF Ext!Start
  <2>2. halved' = halved
    BY <1>5, Zenon DEF Ext!Start
  <2> QED
    BY <1>0, <2>1, <2>2 DEF BundledHeld
<1>6. CASE Ext!SidecarOpens \/ Ext!SidecarDies
  <2>1. UNCHANGED <<stage, shipped, manifest, source, overwritten>>
    BY <1>6 DEF Ext!SidecarOpens, Ext!SidecarDies
  <2>2. halved' = halved
    BY <1>6, Zenon DEF Ext!SidecarOpens, Ext!SidecarDies
  <2> QED
    BY <1>s, <2>1, <2>2
<1>7. ASSUME NEW r \in Changes, NEW e \in Ext!Ext,
             \/ \E v \in Ext!VersionNumbers, o \in BOOLEAN : Ext!SaveChecks(r, e, v, o)
             \/ Ext!ToggleReads(r, e)
      PROVE  overwritten' = {} /\ \A b \in Bundled : BundledHeld(b)'
  <2>1. UNCHANGED <<stage, shipped, manifest, source, overwritten>>
    BY <1>7 DEF Ext!SaveChecks, Ext!ToggleReads
  <2>2. halved' = halved
    BY <1>7, Zenon DEF Ext!SaveChecks, Ext!ToggleReads
  <2> QED
    BY <1>s, <2>1, <2>2
<1>8. ASSUME NEW r \in Changes, NEW e \in Ext!Ext, Ext!RemoveDir(r, e)
      PROVE  overwritten' = {} /\ \A b \in Bundled : BundledHeld(b)'
  <2>1. /\ UNCHANGED <<stage, shipped, manifest, overwritten>> /\ e \in Own
        /\ source' = [source EXCEPT ![e] = Ext!None]
    BY <1>8 DEF Ext!RemoveDir
  <2>2. halved' = halved
    BY <1>8, Zenon DEF Ext!RemoveDir
  <2>3. \A b \in Bundled : source'[b] = source[b]
    BY <1>0, <2>1
  <2> QED
    BY <1>0, <2>1, <2>2, <2>3 DEF BundledHeld
<1>9. ASSUME NEW r \in Changes, Ext!SaveWrites(r)
      PROVE  overwritten' = {} /\ \A b \in Bundled : BundledHeld(b)'
  <2> DEFINE e == request[r].id
  <2>1. /\ UNCHANGED <<stage, shipped, manifest, overwritten>>
        /\ source' = [source EXCEPT ![e] = Ext!By("user", request[r].v)]
    BY <1>9 DEF Ext!SaveWrites
  <2>2. halved' = halved
    BY <1>9, Zenon DEF Ext!SaveWrites
  <2>3. ASSUME NEW b \in Bundled PROVE BundledHeld(b)'
    <3>1. CASE b = e
      BY <1>0, <2>1, <3>1 DEF BundledHeld, Ext!By, Ext!None
    <3>2. CASE b # e
      BY <1>0, <2>1, <2>2, <3>2 DEF BundledHeld
    <3> QED
      BY <3>1, <3>2
  <2> QED
    BY <2>1, <2>3
<1>10. ASSUME NEW r \in Changes,
              Ext!RemoveLists(r) \/ Ext!ListSaves(r) \/ Ext!ListRefused(r)
       PROVE  overwritten' = {} /\ \A b \in Bundled : BundledHeld(b)'
  <2>1. UNCHANGED <<stage, shipped, manifest, source, overwritten>>
    BY <1>10 DEF Ext!RemoveLists, Ext!ListSaves, Ext!ListRefused
  <2>2. halved' = halved
    BY <1>10, Zenon DEF Ext!RemoveLists, Ext!ListSaves, Ext!ListRefused
  <2> QED
    BY <1>s, <2>1, <2>2
<1>11. ASSUME NEW r \in Changes,
              \/ Ext!ReloadReads(r) \/ Ext!ReloadSkipped(r) \/ Ext!ReloadCalls(r)
              \/ Ext!ReloadTimesOut(r)
       PROVE  overwritten' = {} /\ \A b \in Bundled : BundledHeld(b)'
  <2>1. UNCHANGED <<stage, shipped, manifest, source, overwritten>>
    BY <1>11
       DEF Ext!ReloadReads, Ext!ReloadSkipped, Ext!ReloadCalls, Ext!ReloadTimesOut
  <2>2. halved' = halved
    BY <1>11, Zenon
       DEF Ext!ReloadReads, Ext!ReloadSkipped, Ext!ReloadCalls, Ext!ReloadTimesOut
  <2> QED
    BY <1>s, <2>1, <2>2
<1>12. ASSUME NEW l \in loads, Ext!LoadImports(l) \/ Ext!LoadInstalls(l)
       PROVE  overwritten' = {} /\ \A b \in Bundled : BundledHeld(b)'
  <2>1. UNCHANGED <<stage, shipped, manifest, source, overwritten>>
    BY <1>12 DEF Ext!LoadImports, Ext!LoadInstalls
  <2>2. halved' = halved
    BY <1>12, Zenon DEF Ext!LoadImports, Ext!LoadInstalls
  <2> QED
    BY <1>s, <2>1, <2>2
<1>13. CASE UNCHANGED extVars
  BY <1>s, <1>13 DEF extVars
<1> QED
  BY <1>1, <1>2, <1>3, <1>4, <1>5, <1>6, <1>7, <1>8, <1>9, <1>10, <1>11, <1>12, <1>13
     DEF Ext!Next

LEMMA VersionsAre ==
  ASSUME FileTypes, ChangeTypes, NEW e \in Ext!Ext
  PROVE  /\ Version(listed, e) \in Nat /\ newest[e] \in Nat /\ source[e] \in Sources
         /\ Version(Ext!Reconciled, e) = IF source[e] # Ext!None THEN Version(listed, e) ELSE 0
         /\ \A r \in Changes :
              request[r].at \in {"write", "listed"} => ToStoreIs(request[r], e) \in Nat
<1> USE AddedAssumption DEF FileTypes
<1>1. IsList(listed)
  BY ListsAre
<1>2. Version(listed, e) \in Nat /\ newest[e] \in Nat /\ source[e] \in Sources
  BY <1>1 DEF IsList, Entries, Version
<1>3. Version(Ext!Reconciled, e) = IF source[e] # Ext!None THEN Version(listed, e) ELSE 0
  BY ReconciledIs DEF Version, Ext!OnDisk
<1>4. ASSUME NEW r \in Changes, request[r].at \in {"write", "listed"}
      PROVE  ToStoreIs(request[r], e) \in Nat
  <2>1. request[r] \in ToWrite \/ request[r] \in ToStore
    BY <1>4 DEF ChangeTypes, ChangeStates
  <2>2. request[r].v \in Nat /\ IsList(request[r].read)
    BY <2>1, ListsAre DEF ToWrite, ToStore, Ext!VersionNumbers
  <2> QED
    BY <2>2 DEF ToStoreIs, IsList, Entries, Version
<1> QED
  BY <1>2, <1>3, <1>4

(* Where no request begins, stores or drops a change, the version of e stays as it is. *)
LEMMA NewestUntouched ==
  ASSUME NEW e \in Ext!Ext, NewestHeld(e), UNCHANGED <<source, newest, listed, clashed>>,
         \A r \in Changes :
           \/ request'[r] = request[r]
           \/ request[r].at \notin {"write", "listed", "dropped"}
              /\ request'[r].at \notin {"write", "listed", "dropped"}
  PROVE  NewestHeld(e)'
BY DEF NewestHeld, Storing

LEMMA NewestStep ==
  ASSUME FileTypes, ChangeTypes, UpHeld, [Ext!Next]_extVars,
         NEW e \in Ext!Ext, NewestHeld(e)
  PROVE  NewestHeld(e)'
<1> USE AddedAssumption DEF Ext!diskVars, Ext!sideVars, Ext!Free
<1>0. /\ Version(listed, e) \in Nat /\ newest[e] \in Nat /\ source[e] \in Sources
      /\ Version(Ext!Reconciled, e) = IF source[e] # Ext!None THEN Version(listed, e) ELSE 0
      /\ \A r \in Changes :
           request[r].at \in {"write", "listed"} => ToStoreIs(request[r], e) \in Nat
      /\ request \in [Changes -> ChangeStates]
      /\ source \in [Ext!Ext -> Sources] /\ newest \in [Ext!Ext -> 0 .. MaxVersion]
  BY VersionsAre DEF FileTypes, ChangeTypes
<1>u. stage # "up" => \A r \in Changes : request[r].at = "free"
  BY DEF UpHeld
<1>1. CASE Ext!BootWrites
  <2>1. /\ \A r \in Changes : request[r].at = "free"
        /\ UNCHANGED <<listed, request, clashed>>
        /\ \/ source'[e] = Ext!By("v1", shipped) /\ newest'[e] = 0
           \/ source'[e] = source[e] /\ newest'[e] = newest[e]
    BY <1>u, <1>1 DEF Ext!BootWrites
  <2> QED
    BY <1>0, <2>1 DEF NewestHeld, Storing, Ext!By, Ext!None
<1>2. CASE Ext!BootRecords \/ Ext!Start \/ Ext!SidecarOpens
  BY <1>2, NewestUntouched DEF Ext!BootRecords, Ext!Start, Ext!SidecarOpens
<1>3. CASE Ext!BootLists
  <2>1. /\ UNCHANGED <<source, newest, request, clashed>>
        /\ listed' = [x \in DOMAIN listed \cup Bundled |->
                        IF x \in DOMAIN listed THEN listed[x] ELSE [on |-> TRUE, v |-> 0]]
    BY <1>3 DEF Ext!BootLists
  <2>2. Version(listed', e) = Version(listed, e)
    BY <2>1 DEF Version
  <2> QED
    BY <2>1, <2>2 DEF NewestHeld, Storing
<1>4. CASE Ext!Stop
  <2>1. /\ UNCHANGED <<source, newest, listed>> /\ \A r \in Changes : request'[r].at = "free"
        /\ clashed \subseteq clashed'
        /\ \A r \in Changes : Storing(r, e) => e \in clashed'
    BY <1>4 DEF Ext!Stop, Storing
  <2> QED
    BY <2>1 DEF NewestHeld, Storing
<1>5. CASE Ext!SidecarDies
  <2>1. /\ UNCHANGED <<source, newest, listed, clashed>>
        /\ request' = [r \in Changes |->
             IF request[r].at = "loading" THEN [at |-> "free"] ELSE request[r]]
    BY <1>5 DEF Ext!SidecarDies
  <2> QED
    BY <2>1, NewestUntouched
<1>6. ASSUME NEW r \in Changes, NEW x \in Ext!Ext, NEW v \in Ext!VersionNumbers,
             NEW o \in BOOLEAN, Ext!SaveChecks(r, x, v, o)
      PROVE  NewestHeld(e)'
  <2> DEFINE q == [at |-> "write", id |-> x, v |-> v, on |-> o, read |-> Ext!Reconciled]
  <2>1. /\ UNCHANGED <<source, newest, listed, clashed>> /\ request[r].at = "free"
        /\ request' = [request EXCEPT ![r] = q] /\ Ext!MovesForward(x, v)
    BY <1>6 DEF Ext!SaveChecks, Ext!Goes, Ext!Idle
  <2>2. v \in Nat /\ (x = e => source[e] = Ext!None \/ v > Version(listed, e))
    <3>1. x \in Ext!OnDisk => v > Version(listed, x)
      BY <2>1, ReconciledIs DEF Ext!MovesForward
    <3> QED
      BY <3>1 DEF Ext!OnDisk, Ext!VersionNumbers
  <2>3. q.at = "write" /\ q.id = x /\ q.v = v /\ q.read = Ext!Reconciled
    OBVIOUS
  <2> HIDE DEF q
  <2>4. /\ \A s \in Changes : s # r => request'[s] = request[s]
        /\ request'[r] = q
        /\ \A s \in Changes : Storing(s, e)' = Storing(s, e)
    BY <1>0, <2>1, <2>3 DEF Storing
  <2>5. /\ source[e] = Ext!None => newest[e] = 0
        /\ ToStoreIs(q, e) = IF e = x THEN v ELSE Version(Ext!Reconciled, e)
    BY <2>3 DEF NewestHeld, ToStoreIs
  <2>6. ~Storing(r, e)
    BY <2>1 DEF Storing
  <2>7. e \notin clashed /\ (\A s \in Changes \ {r} : ~Storing(s, e)) =>
          newest[e] <= Version(listed, e)
    BY <2>6 DEF NewestHeld
  <2>8. e \notin clashed /\ (\A s \in Changes \ {r} : ~Storing(s, e)) =>
          newest[e] <= ToStoreIs(q, e)
    BY <1>0, <2>2, <2>5, <2>7
  <2> QED
    BY <2>1, <2>3, <2>4, <2>8 DEF NewestHeld
<1>7. ASSUME NEW r \in Changes, NEW x \in Ext!Ext, Ext!ToggleReads(r, x)
      PROVE  NewestHeld(e)'
  <2> DEFINE q == [at |-> "listed", id |-> x, v |-> Ext!Reconciled[x].v,
                   on |-> ~Ext!Reconciled[x].on, read |-> Ext!Reconciled]
  <2>1. /\ UNCHANGED <<source, newest, listed, clashed>> /\ request[r].at = "free"
        /\ request' = [request EXCEPT ![r] = q] /\ x \in Ext!OnDisk
    BY <1>7 DEF Ext!ToggleReads, Ext!Goes, Ext!Idle
  <2>2. q.at = "listed" /\ q.id = x /\ q.v = Version(listed, x) /\ q.read = Ext!Reconciled
    BY <2>1, ReconciledIs
  <2> HIDE DEF q
  <2>3. /\ \A s \in Changes : s # r => request'[s] = request[s]
        /\ request'[r] = q
        /\ \A s \in Changes \ {r} : Storing(s, e)' = Storing(s, e)
        /\ Storing(r, e)' = (x = e)
    BY <1>0, <2>1, <2>2 DEF Storing
  <2>4. /\ source[e] = Ext!None => newest[e] = 0
        /\ ToStoreIs(q, e) = IF source[e] # Ext!None THEN Version(listed, e) ELSE 0
    BY <1>0, <2>1, <2>2 DEF NewestHeld, ToStoreIs, Ext!OnDisk
  <2>5. ~Storing(r, e)
    BY <2>1 DEF Storing
  <2>6. e \notin clashed /\ (\A s \in Changes \ {r} : ~Storing(s, e)) =>
          newest[e] <= Version(listed, e)
    BY <2>5 DEF NewestHeld
  <2>7. e \notin clashed /\ (\A s \in Changes \ {r} : ~Storing(s, e)) =>
          newest[e] <= ToStoreIs(q, e)
    BY <1>0, <2>4, <2>6
  <2> QED
    BY <2>1, <2>2, <2>3, <2>5, <2>6, <2>7 DEF NewestHeld
<1>8. ASSUME NEW r \in Changes, NEW x \in Ext!Ext, Ext!RemoveDir(r, x)
      PROVE  NewestHeld(e)'
  <2>1. /\ source' = [source EXCEPT ![x] = Ext!None] /\ newest' = [newest EXCEPT ![x] = 0]
        /\ request' = [request EXCEPT ![r] = [at |-> "dropped", id |-> x]]
        /\ clashed \subseteq clashed' /\ request[r].at = "free" /\ listed' = listed
    BY <1>8 DEF Ext!RemoveDir, Ext!Goes, Ext!Idle
  <2>2. /\ \A s \in Changes : s # r => request'[s] = request[s]
        /\ request'[r].at = "dropped" /\ request'[r].id = x
        /\ \A s \in Changes : Storing(s, e)' = Storing(s, e)
    BY <1>0, <2>1 DEF Storing
  <2>3. CASE x = e
    BY <1>0, <2>1, <2>2, <2>3 DEF NewestHeld, Ext!None
  <2>4. CASE x # e
    BY <1>0, <2>1, <2>2, <2>4 DEF NewestHeld, Storing
  <2> QED
    BY <2>3, <2>4
<1>9. ASSUME NEW r \in Changes, Ext!SaveWrites(r)
      PROVE  NewestHeld(e)'
  <2> DEFINE x == request[r].id  v == request[r].v  q == [request[r] EXCEPT !.at = "listed"]
  <2>1. /\ source' = [source EXCEPT ![x] = Ext!By("user", v)]
        /\ newest' = [newest EXCEPT ![x] = IF v > newest[x] THEN v ELSE newest[x]]
        /\ request' = [request EXCEPT ![r] = q]
        /\ clashed' = IF Ext!Changing = {r} THEN clashed ELSE clashed \cup {x}
        /\ request[r].at = "write" /\ listed' = listed
    BY <1>9 DEF Ext!SaveWrites, Ext!Goes
  <2>2. request[r] \in ToWrite
    BY <2>1 DEF ChangeTypes, ChangeStates, ToStore
  <2>3. x \in Ext!Ext /\ v \in Nat
    BY <2>2 DEF ToWrite, Ext!VersionNumbers
  <2>4. /\ q.at = "listed" /\ q.id = x /\ q.v = v /\ q.read = request[r].read
    BY <2>2 DEF ToWrite
  <2> HIDE DEF q
  <2>5. /\ \A s \in Changes : s # r => request'[s] = request[s]
        /\ request'[r] = q
        /\ \A s \in Changes \ {r} : Storing(s, e)' = Storing(s, e)
        /\ Storing(r, e)' = (x = e) /\ ~Storing(r, e)
        /\ ToStoreIs(q, e) = ToStoreIs(request[r], e)
    BY <1>0, <2>1, <2>4 DEF Storing, ToStoreIs
  <2>6. CASE x # e
    <3>1. source'[e] = source[e] /\ newest'[e] = newest[e] /\ (e \in clashed' <=> e \in clashed)
      BY <1>0, <2>1, <2>6
    <3> QED
      BY <2>1, <2>4, <2>5, <2>6, <3>1 DEF NewestHeld
  <2>7. CASE x = e
    <3>1. source'[e] = Ext!By("user", v) /\ newest'[e] = IF v > newest[e] THEN v ELSE newest[e]
      BY <1>0, <2>1, <2>7
    <3>2. source'[e] # Ext!None /\ source'[e].v = v
      BY <3>1 DEF Ext!None, Ext!By
    <3>3. CASE e \in clashed'
      BY <3>2, <3>3 DEF NewestHeld
    <3>4. CASE e \notin clashed'
      <4>1. Ext!Changing = {r} /\ e \notin clashed
        BY <2>1, <2>7, <3>4
      <4>2. \A s \in Changes \ {r} : request[s].at \notin {"write", "listed", "dropped"}
        BY <4>1 DEF Ext!Changing
      <4>3. newest[e] <= ToStoreIs(request[r], e)
        BY <2>1, <4>1, <4>2 DEF NewestHeld, Storing
      <4>4. newest[e] <= v /\ ToStoreIs(q, e) = v
        BY <2>5, <2>7, <4>3 DEF ToStoreIs
      <4>5. newest'[e] = v
        BY <1>0, <2>3, <3>1, <4>4
      <4>6. \A s \in Changes \ {r} : request'[s].at \notin {"write", "listed", "dropped"}
        BY <2>5, <4>2
      <4>7. newest'[e] <= ToStoreIs(q, e) /\ request'[r] = q
        BY <2>3, <2>5, <4>4, <4>5
      <4>8. Storing(r, e)'
        BY <2>5, <2>7
      <4> QED
        BY <2>4, <3>2, <4>5, <4>6, <4>7, <4>8 DEF NewestHeld
    <3> QED
      BY <3>3, <3>4
  <2> QED
    BY <2>6, <2>7
<1>10. ASSUME NEW r \in Changes, Ext!RemoveLists(r)
       PROVE  NewestHeld(e)'
  <2> DEFINE x == request[r].id
  <2>1. /\ listed' = [y \in Ext!OnDisk \ {x} |-> Ext!Reconciled[y]]
        /\ request' = [request EXCEPT ![r] = [at |-> "reload"]]
        /\ UNCHANGED <<source, newest, clashed>> /\ request[r].at = "dropped"
    BY <1>10 DEF Ext!RemoveLists, Ext!Goes
  <2>2. /\ \A s \in Changes : s # r => request'[s] = request[s]
        /\ request'[r].at = "reload"
        /\ \A s \in Changes : Storing(s, e)' = Storing(s, e)
    BY <1>0, <2>1 DEF Storing
  <2>3. CASE x = e /\ e \notin clashed
    <3>1. newest[e] = 0 /\ Version(listed', e) = 0
      BY <2>1, <2>3 DEF NewestHeld, Version
    <3> QED
      BY <1>0, <2>1, <2>2, <3>1 DEF NewestHeld
  <2>4. CASE x # e
    <3>1. Version(listed', e) = IF source[e] # Ext!None THEN Version(listed, e) ELSE 0
      BY <1>0, <2>1, <2>4, ReconciledIs DEF Version, Ext!OnDisk
    <3> QED
      BY <1>0, <2>1, <2>2, <3>1 DEF NewestHeld
  <2>5. CASE e \in clashed
    BY <2>1, <2>5 DEF NewestHeld
  <2> QED
    BY <2>3, <2>4, <2>5
<1>11. ASSUME NEW r \in Changes, Ext!ListSaves(r)
       PROVE  NewestHeld(e)'
  <2> DEFINE q == request[r]
  <2>1. /\ listed' = [y \in DOMAIN q.read \cup {q.id} |->
                        IF y = q.id THEN [on |-> q.on, v |-> q.v] ELSE q.read[y]]
        /\ request' = [request EXCEPT ![r] = [at |-> "reload"]]
        /\ clashed' = IF Ext!Changing = {r} THEN clashed ELSE clashed \cup Ext!Ext
        /\ UNCHANGED <<source, newest>> /\ request[r].at = "listed"
    BY <1>11 DEF Ext!ListSaves, Ext!Goes
  <2>2. Version(listed', e) = ToStoreIs(q, e)
    BY <2>1 DEF Version, ToStoreIs
  <2>3. CASE Ext!Changing # {r}
    BY <2>1, <2>3 DEF NewestHeld
  <2>4. CASE Ext!Changing = {r}
    <3>1. \A s \in Changes \ {r} : request[s].at \notin {"write", "listed", "dropped"}
      BY <2>4 DEF Ext!Changing
    <3>2. \A s \in Changes : request'[s].at \notin {"write", "listed", "dropped"}
      BY <1>0, <2>1, <3>1
    <3>3. e \notin clashed => newest[e] <= ToStoreIs(q, e)
      BY <2>1, <3>1 DEF NewestHeld, Storing
    <3> QED
      BY <2>1, <2>2, <2>4, <3>2, <3>3 DEF NewestHeld
  <2> QED
    BY <2>3, <2>4
<1>12. ASSUME NEW r \in Changes, Ext!ListRefused(r)
       PROVE  NewestHeld(e)'
  <2> DEFINE x == request[r].id
  <2>1. /\ request' = [request EXCEPT ![r] = [at |-> "free"]]
        /\ clashed' = clashed \cup {x} /\ UNCHANGED <<source, newest, listed>>
    BY <1>12 DEF Ext!ListRefused, Ext!Goes
  <2>2. /\ \A s \in Changes : s # r => request'[s] = request[s]
        /\ request'[r].at = "free"
        /\ x # e => \A s \in Changes : Storing(s, e)' = Storing(s, e)
    BY <1>0, <2>1 DEF Storing
  <2>3. CASE x = e
    BY <2>1, <2>3 DEF NewestHeld
  <2>4. CASE x # e
    BY <2>1, <2>2, <2>4 DEF NewestHeld
  <2> QED
    BY <2>3, <2>4
<1>13. ASSUME NEW r \in Changes,
              \/ Ext!ReloadReads(r) \/ Ext!ReloadSkipped(r) \/ Ext!ReloadCalls(r)
              \/ Ext!ReloadTimesOut(r)
       PROVE  NewestHeld(e)'
  <2>1. /\ UNCHANGED <<source, newest, listed, clashed>>
        /\ request[r].at \notin {"write", "listed", "dropped"}
        /\ \E to \in {"call", "free", "loading"} :
             \E q : q.at = to /\ request' = [request EXCEPT ![r] = q]
    BY <1>13
       DEF Ext!ReloadReads, Ext!ReloadSkipped, Ext!ReloadCalls, Ext!ReloadTimesOut,
           Ext!ReloadAsked, Ext!Idle, Ext!Goes
  <2>2. \A s \in Changes : s # r => request'[s] = request[s]
    BY <1>0, <2>1
  <2>3. request'[r].at \notin {"write", "listed", "dropped"}
    BY <1>0, <2>1
  <2> QED
    BY <2>1, <2>2, <2>3, NewestUntouched
<1>14. ASSUME NEW l \in loads, Ext!LoadImports(l)
       PROVE  NewestHeld(e)'
  BY <1>14, NewestUntouched DEF Ext!LoadImports
<1>15. ASSUME NEW l \in loads, Ext!LoadInstalls(l)
       PROVE  NewestHeld(e)'
  <2>1. /\ UNCHANGED <<source, newest, listed, clashed>>
        /\ request' = [r \in Changes |->
             IF r = l.of /\ request[r].at = "loading" THEN [at |-> "free"] ELSE request[r]]
    BY <1>15 DEF Ext!LoadInstalls
  <2> QED
    BY <2>1, NewestUntouched
<1>16. CASE UNCHANGED extVars
  BY <1>16, NewestUntouched DEF extVars
<1> QED
  BY <1>1, <1>2, <1>3, <1>4, <1>5, <1>6, <1>7, <1>8, <1>9, <1>10, <1>11, <1>12, <1>13, <1>14,
     <1>15, <1>16
     DEF Ext!Next

LEMMA ReloadStep ==
  ASSUME FileTypes, ChangeTypes, ExtFlags, UpHeld, ReloadHeld, RunsEnabled, [Ext!Next]_extVars
  PROVE  ReloadHeld' /\ RunsEnabled'
<1> USE DEF Ext!diskVars, Ext!sideVars, Ext!Free
<1>0. request \in [Changes -> ChangeStates] /\ Ext!Enabled \subseteq Ext!OnDisk
  BY ReconciledIs DEF ChangeTypes
<1>e. UNCHANGED <<source, listed>> =>
        UNCHANGED <<Ext!Enabled, EnabledSources>>
  BY DEF Ext!Enabled, Ext!OnDisk, Ext!Reconciled, EnabledSources
<1>u. /\ stage # "up" => sidecar = "down" /\ \A r \in Changes : request[r].at = "free"
      /\ sidecar = "down" => loads = {}
      /\ sidecar # "up" => ~told
      /\ sidecar = "opening" => \E l \in loads : loads = {l}
      /\ sidecar \in {"down", "opening", "up"}
  BY DEF UpHeld, ChangeTypes
<1>d. (overlap' = Ext!Disturbed) => (~overlap' => ~overlap /\ Ext!Reloading = {} /\ loads = {})
  BY Zenon DEF Ext!Disturbed
<1>n. sidecar # "up" /\ ~overlap => \A r \in Changes : request[r].at # "call"
  BY DEF ReloadHeld
<1>1. CASE Ext!BootWrites \/ Ext!BootRecords \/ Ext!BootLists \/ Ext!Start
  <2>1. stage # "up" /\ sidecar' = sidecar /\ request' = request
    BY <1>1 DEF Ext!BootWrites, Ext!BootRecords, Ext!BootLists, Ext!Start
  <2> QED
    BY <1>u, <2>1 DEF ReloadHeld, RunsEnabled
<1>2. CASE Ext!Stop
  <2>1. sidecar' = "down" /\ \A r \in Changes : request'[r].at = "free"
    BY <1>2 DEF Ext!Stop
  <2> QED
    BY <2>1 DEF ReloadHeld, RunsEnabled
<1>3. CASE Ext!SidecarDies
  <2>1. overlap'
    BY <1>3, Zenon DEF Ext!SidecarDies
  <2> QED
    BY <2>1 DEF ReloadHeld, RunsEnabled
<1>4. CASE Ext!SidecarOpens
  <2>1. sidecar = "down" /\ sidecar' = "opening" /\ UNCHANGED <<request, overlap>>
    BY <1>4 DEF Ext!SidecarOpens
  <2> QED
    BY <1>n, <2>1 DEF ReloadHeld, RunsEnabled
<1>5. ASSUME NEW r \in Changes, NEW x \in Ext!Ext, NEW v \in Ext!VersionNumbers,
             NEW o \in BOOLEAN, Ext!SaveChecks(r, x, v, o)
      PROVE  ReloadHeld' /\ RunsEnabled'
  <2> DEFINE q == [at |-> "write", id |-> x, v |-> v, on |-> o, read |-> Ext!Reconciled]
  <2>1. /\ UNCHANGED <<source, listed, sidecar, loads, installed, told, overlap, clashed>>
        /\ request[r].at = "free" /\ q.at = "write"
        /\ request' = [request EXCEPT ![r] = q]
    BY <1>5 DEF Ext!SaveChecks, Ext!Goes, Ext!Idle
  <2> HIDE DEF q
  <2>2. /\ \A s \in Changes : s # r => request'[s] = request[s]
        /\ request'[r].at = "write"
    BY <1>0, <2>1
  <2>3. Ext!Reloading' = Ext!Reloading
    BY <2>1, <2>2 DEF Ext!Reloading
  <2>4. ReloadHeld'
    BY <1>e, <2>1, <2>2, <2>3 DEF ReloadHeld
  <2>5. RunsEnabled'
    BY <1>e, <2>1, <2>2 DEF RunsEnabled
  <2> QED
    BY <2>4, <2>5
<1>6. ASSUME NEW r \in Changes, NEW x \in Ext!Ext, Ext!ToggleReads(r, x)
      PROVE  ReloadHeld' /\ RunsEnabled'
  <2> DEFINE q == [at |-> "listed", id |-> x, v |-> Ext!Reconciled[x].v,
                   on |-> ~Ext!Reconciled[x].on, read |-> Ext!Reconciled]
  <2>1. /\ UNCHANGED <<source, listed, sidecar, loads, overlap>>
        /\ request[r].at = "free" /\ q.at = "listed"
        /\ request' = [request EXCEPT ![r] = q]
    BY <1>6 DEF Ext!ToggleReads, Ext!Goes, Ext!Idle
  <2> HIDE DEF q
  <2>2. /\ \A s \in Changes : s # r => request'[s] = request[s]
        /\ request'[r].at = "listed"
    BY <1>0, <2>1
  <2>3. Ext!Reloading' = Ext!Reloading
    BY <2>1, <2>2 DEF Ext!Reloading
  <2>4. ReloadHeld'
    BY <1>e, <2>1, <2>2, <2>3 DEF ReloadHeld
  <2>5. RunsEnabled'
    BY <2>2 DEF RunsEnabled
  <2> QED
    BY <2>4, <2>5
<1>7. ASSUME NEW r \in Changes,
             \/ \E x \in Ext!Ext : Ext!RemoveDir(r, x)
             \/ Ext!SaveWrites(r) \/ Ext!RemoveLists(r) \/ Ext!ListSaves(r)
      PROVE  ReloadHeld' /\ RunsEnabled'
  <2>1. loads' = loads
    BY <1>7 DEF Ext!RemoveDir, Ext!SaveWrites, Ext!RemoveLists, Ext!ListSaves
  <2>2. overlap' = Ext!Disturbed
    BY <1>7, Zenon DEF Ext!RemoveDir, Ext!SaveWrites, Ext!RemoveLists, Ext!ListSaves
  <2>3. ~overlap' => Ext!Reloading = {} /\ loads = {}
    BY <1>d, <2>2
  <2>4. /\ \A s \in Changes : s # r => request'[s] = request[s]
        /\ request'[r].at \in {"dropped", "listed", "reload"}
    <3>1. CASE \E x \in Ext!Ext : Ext!RemoveDir(r, x)
      <4>1. PICK x \in Ext!Ext : request' = [request EXCEPT ![r] = [at |-> "dropped", id |-> x]]
        BY <3>1 DEF Ext!RemoveDir, Ext!Goes
      <4> QED
        BY <1>0, <4>1
    <3>2. CASE Ext!SaveWrites(r)
      <4>1. request[r] \in ToWrite
        BY <1>0, <3>2 DEF Ext!SaveWrites, ChangeStates, ToStore
      <4>2. [request[r] EXCEPT !.at = "listed"].at = "listed"
        BY <4>1 DEF ToWrite
      <4>3. request' = [request EXCEPT ![r] = [request[r] EXCEPT !.at = "listed"]]
        BY <3>2 DEF Ext!SaveWrites, Ext!Goes
      <4> QED
        BY <1>0, <4>2, <4>3
    <3>3. CASE Ext!RemoveLists(r) \/ Ext!ListSaves(r)
      BY <1>0, <3>3 DEF Ext!RemoveLists, Ext!ListSaves, Ext!Goes
    <3> QED
      BY <1>7, <3>1, <3>2, <3>3
  <2>5. ReloadHeld'
    BY <2>1, <2>3, <2>4 DEF ReloadHeld, Ext!Reloading
  <2>6. RunsEnabled'
    BY <2>4 DEF RunsEnabled
  <2> QED
    BY <2>5, <2>6
<1>8. ASSUME NEW r \in Changes, Ext!ListRefused(r)
      PROVE  ReloadHeld' /\ RunsEnabled'
  <2>1. /\ UNCHANGED <<source, listed, sidecar, loads, overlap>> /\ clashed' # {}
        /\ request[r].at \in {"listed", "dropped"}
        /\ request' = [request EXCEPT ![r] = [at |-> "free"]]
    BY <1>8 DEF Ext!ListRefused, Ext!Goes
  <2>2. /\ \A s \in Changes : s # r => request'[s] = request[s]
        /\ request'[r].at = "free"
    BY <1>0, <2>1
  <2>3. Ext!Reloading' = Ext!Reloading
    BY <2>1, <2>2 DEF Ext!Reloading
  <2>4. ReloadHeld'
    BY <1>e, <2>1, <2>2, <2>3 DEF ReloadHeld
  <2>5. RunsEnabled'
    BY <2>1 DEF RunsEnabled
  <2> QED
    BY <2>4, <2>5
<1>9. ASSUME NEW r \in Changes, Ext!ReloadReads(r)
      PROVE  ReloadHeld' /\ RunsEnabled'
  <2>1. /\ UNCHANGED <<source, listed, sidecar, loads>> /\ sidecar = "up"
        /\ request' = [request EXCEPT ![r] = [at |-> "call", on |-> Ext!Enabled]]
    BY <1>9 DEF Ext!ReloadReads, Ext!Goes
  <2>2. ~overlap' => Ext!Reloading = {} /\ loads = {}
    BY <1>9, Zenon DEF Ext!ReloadReads
  <2>3. /\ \A s \in Changes : s # r => request'[s] = request[s]
        /\ request'[r].at = "call" /\ request'[r].on = Ext!Enabled
    BY <1>0, <2>1
  <2>4. ~overlap' => Ext!Reloading' = {r}
    BY <2>2, <2>3 DEF Ext!Reloading
  <2>5. ~overlap' => \A s \in Changes : request'[s].at = "call" => s = r
    BY <2>4 DEF Ext!Reloading
  <2>6. ReloadHeld'
    BY <1>e, <2>1, <2>2, <2>3, <2>4, <2>5 DEF ReloadHeld
  <2>7. RunsEnabled'
    BY <2>3 DEF RunsEnabled
  <2> QED
    BY <2>6, <2>7
<1>10. ASSUME NEW r \in Changes, Ext!ReloadSkipped(r)
       PROVE  ReloadHeld' /\ RunsEnabled'
  <2>1. /\ UNCHANGED <<sidecar, overlap>> /\ sidecar # "up"
        /\ request' = [request EXCEPT ![r] = [at |-> "free"]]
    BY <1>10 DEF Ext!ReloadSkipped, Ext!Goes
  <2>2. \A s \in Changes : request'[s] = request[s] \/ request'[s].at = "free"
    BY <1>0, <2>1
  <2> QED
    BY <1>n, <2>1, <2>2 DEF ReloadHeld, RunsEnabled
<1>11. ASSUME NEW r \in Changes, Ext!ReloadCalls(r)
       PROVE  ReloadHeld' /\ RunsEnabled'
  <2> DEFINE l == [of |-> r, on |-> request[r].on, found |-> <<>>, at |-> "import"]
  <2>1. /\ UNCHANGED <<source, listed, sidecar, overlap>> /\ sidecar = "up"
        /\ request[r].at = "call" /\ loads' = loads \cup {l}
        /\ request' = [request EXCEPT ![r] = [at |-> "loading"]]
    BY <1>11 DEF Ext!ReloadCalls, Ext!Goes
  <2>2. l.on = request[r].on /\ l.at = "import"
    OBVIOUS
  <2> HIDE DEF l
  <2>3. /\ \A s \in Changes : s # r => request'[s] = request[s]
        /\ request'[r].at = "loading"
    BY <1>0, <2>1
  <2>4. ~overlap => loads = {} /\ request[r].on = Ext!Enabled /\ Ext!Reloading = {r}
    BY <2>1 DEF ReloadHeld
  <2>5. ~overlap => \A s \in Changes : request[s].at = "call" => s = r
    BY <2>4 DEF Ext!Reloading
  <2>6. ReloadHeld'
    BY <1>e, <2>1, <2>2, <2>3, <2>4, <2>5 DEF ReloadHeld
  <2>7. RunsEnabled'
    BY <2>1 DEF RunsEnabled
  <2> QED
    BY <2>6, <2>7
<1>12. ASSUME NEW r \in Changes, Ext!ReloadTimesOut(r)
       PROVE  ReloadHeld' /\ RunsEnabled'
  <2>1. /\ UNCHANGED <<source, listed, sidecar, loads, installed, told, overlap, clashed>>
        /\ request[r].at = "loading" /\ request' = [request EXCEPT ![r] = [at |-> "free"]]
    BY <1>12 DEF Ext!ReloadTimesOut, Ext!Goes
  <2>2. /\ \A s \in Changes : s # r => request'[s] = request[s]
        /\ request'[r].at = "free"
    BY <1>0, <2>1
  <2>3. ~overlap => \A s \in Changes : request[s].at # "call"
    BY <2>1 DEF ReloadHeld, Ext!Reloading
  <2>4. ReloadHeld'
    BY <1>e, <2>1, <2>2, <2>3 DEF ReloadHeld
  <2>5. RunsEnabled'
    BY <1>e, <2>1, <2>2 DEF RunsEnabled
  <2> QED
    BY <2>4, <2>5
<1>13. ASSUME NEW l \in loads, Ext!LoadImports(l)
       PROVE  ReloadHeld' /\ RunsEnabled'
  <2> DEFINE k == [l EXCEPT !.at = "install", !.found = Ext!Imported(l)]
  <2>1. UNCHANGED <<source, listed, sidecar, request, overlap>> /\ loads' = (loads \ {l}) \cup {k}
    BY <1>13 DEF Ext!LoadImports
  <2>2. l \in Loads
    BY DEF ChangeTypes
  <2>3. k.on = l.on /\ k.found = Ext!Imported(l)
    BY <2>2 DEF Loads
  <2> HIDE DEF k
  <2>4. l.on = Ext!Enabled => Ext!Imported(l) = EnabledSources
    <3>1. Ext!OnDisk \cap Ext!Enabled = Ext!Enabled
      BY <1>0
    <3> QED
      BY <3>1 DEF Ext!Imported, EnabledSources
  <2>5. ~overlap /\ sidecar = "up" => loads = {l} /\ l.on = Ext!Enabled
    BY DEF ReloadHeld
  <2>6. ~overlap => \A s \in Changes : request[s].at # "call"
    BY DEF ReloadHeld
  <2>7. ReloadHeld'
    BY <1>e, <2>1, <2>3, <2>4, <2>5, <2>6 DEF ReloadHeld
  <2>8. RunsEnabled'
    BY <2>1 DEF RunsEnabled
  <2> QED
    BY <2>7, <2>8
<1>14. ASSUME NEW l \in loads, Ext!LoadInstalls(l)
       PROVE  ReloadHeld' /\ RunsEnabled'
  <2>1. /\ UNCHANGED <<source, listed, told, overlap>> /\ l.at = "install"
        /\ loads' = loads \ {l} /\ installed' = l.found /\ sidecar' = "up"
        /\ request' = [r \in Changes |->
             IF r = l.of /\ request[r].at = "loading" THEN [at |-> "free"] ELSE request[r]]
    BY <1>14 DEF Ext!LoadInstalls
  <2>2. ~overlap /\ sidecar = "up" => loads = {l} /\ l.found = EnabledSources
    BY <2>1 DEF ReloadHeld
  <2>3. sidecar = "opening" => loads = {l} /\ ~told
    BY <1>u
  <2>4. sidecar # "down"
    BY <1>u
  <2>5. ~overlap => loads' = {}
    BY <1>u, <2>1, <2>2, <2>3, <2>4
  <2>6. ~overlap => \A s \in Changes : request[s].at # "call"
    BY DEF ReloadHeld
  <2>7. ~overlap => \A s \in Changes : request'[s].at # "call"
    BY <2>1, <2>6
  <2>8. ReloadHeld'
    BY <2>1, <2>5, <2>7 DEF ReloadHeld
  <2>9. RunsEnabled'
    BY <1>e, <1>u, <2>1, <2>2, <2>3, <2>4 DEF RunsEnabled
  <2> QED
    BY <2>8, <2>9
<1>15. CASE UNCHANGED extVars
  <2>1. UNCHANGED <<source, listed, request, sidecar, loads, installed, told, overlap, clashed>>
    BY <1>15 DEF extVars
  <2>2. Ext!Reloading' = Ext!Reloading
    BY <2>1 DEF Ext!Reloading
  <2> QED
    BY <1>e, <2>1, <2>2 DEF ReloadHeld, RunsEnabled
<1> QED
  BY <1>1, <1>2, <1>3, <1>4, <1>5, <1>6, <1>7, <1>8, <1>9, <1>10, <1>11, <1>12, <1>13, <1>14,
     <1>15
     DEF Ext!Next

LEMMA ExtensionsStep == ExtensionsIInv /\ [Ext!Next]_extVars => ExtensionsIInv'
<1> SUFFICES ASSUME ExtensionsIInv, [Ext!Next]_extVars
             PROVE  ExtensionsIInv'
  OBVIOUS
<1>1. /\ FileTypes /\ ChangeTypes /\ ExtFlags /\ UpHeld /\ overwritten = {}
      /\ \A b \in Bundled : BundledHeld(b)
      /\ \A e \in Ext!Ext : NewestHeld(e)
      /\ ReloadHeld /\ RunsEnabled
  BY DEF ExtensionsIInv
<1>2. FileTypes' /\ ChangeTypes' /\ ExtFlags' /\ UpHeld'
  BY <1>1, FileTypesStep, ChangeTypesStep, ExtFlagsStep, UpHeldStep
<1>3. overwritten' = {} /\ \A b \in Bundled : BundledHeld(b)'
  BY <1>1, BundledStep
<1>4. \A e \in Ext!Ext : NewestHeld(e)'
  BY <1>1, NewestStep
<1>5. ReloadHeld' /\ RunsEnabled'
  BY <1>1, ReloadStep
<1> QED
  BY <1>2, <1>3, <1>4, <1>5 DEF ExtensionsIInv

LEMMA ExtensionsAsHeld ==
  ASSUME ExtensionsIInv
  PROVE  Ext!TypeOK /\ Ext!LoadedIsEnabled /\ Ext!NewestStays /\ Ext!BundledHold
<1>1. FileTypes /\ ChangeTypes /\ ReloadHeld /\ RunsEnabled
  BY DEF ExtensionsIInv
<1>2. Ext!TypeOK
  <2>1. Sources = {Ext!None} \cup
          {Ext!By(w, v) : w \in {"v1", "user"}, v \in Ext!VersionNumbers}
    BY DEF Sources, Ext!By
  <2>2. DOMAIN listed \subseteq Ext!Ext
        /\ \A e \in DOMAIN listed : listed[e].on \in BOOLEAN /\ listed[e].v \in 0 .. MaxVersion
    BY <1>1, ListsAre DEF FileTypes, IsList, Entries
  <2>3. \A r \in Changes : request[r].at \in
          {"free", "write", "listed", "dropped", "reload", "call", "loading"}
    <3> TAKE r \in Changes
    <3>1. request[r] \in ChangeStates
      BY <1>1 DEF ChangeTypes
    <3> QED
      BY <3>1 DEF ChangeStates, ToWrite, ToStore
  <2> QED
    BY <1>1, <2>1, <2>2, <2>3 DEF Ext!TypeOK, FileTypes, ChangeTypes
<1>3. Ext!LoadedIsEnabled
  BY <1>1 DEF Ext!LoadedIsEnabled, Ext!Quiet, Ext!Free, RunsEnabled, EnabledSources
<1>4. Ext!NewestStays
  BY DEF Ext!NewestStays, ExtensionsIInv, NewestHeld
<1>5. Ext!BundledHold
  BY DEF Ext!BundledHold, ExtensionsIInv, BundledHeld
<1> QED
  BY <1>2, <1>3, <1>4, <1>5

-----------------------------------------------------------------------------
(* reloadExtensions: a sidecar that was told runs what is enabled, as it is on disk;
   createExtension: the installed version is the newest; Materialize: an edited bundled
   source is kept; ensureBuiltinSkills: a skill the user removed stays removed;
   SystemPrompt: a listed skill has its files; RefreshBuiltins: a start refreshes the
   bundled one. *)
THEOREM AddedAreHeld == PartsSpec => []AddedHold
<1> DEFINE Inv == ExtensionsIInv /\ SkillsIInv
<1>1. PartsInit => Inv
  BY ExtensionsInit, SkillsInit DEF PartsInit
<1>2. Inv /\ [PartsNext]_vars => Inv'
  <2> SUFFICES ASSUME ExtensionsIInv, SkillsIInv, [PartsNext]_vars
               PROVE  Inv'
    OBVIOUS
  <2>1. CASE InExtensions(Ext!Next)
    <3>1. ExtensionsIInv'
      BY <2>1, ExtensionsStep DEF InExtensions
    <3>2. UNCHANGED skillVars
      BY <2>1, Zenon DEF InExtensions
    <3> QED
      BY <3>1, <3>2, SkillsStep
  <2>2. CASE InSkills(Prompt!Next)
    <3>1. SkillsIInv'
      BY <2>2, SkillsStep DEF InSkills
    <3>2. UNCHANGED extVars
      BY <2>2, Zenon DEF InSkills
    <3> QED
      BY <3>1, <3>2, ExtensionsStep
  <2>3. CASE UNCHANGED <<extVars, skillVars>>
    BY <2>3, ExtensionsStep, SkillsStep
  <2> QED
    BY <2>1, <2>2, <2>3, Zenon
       DEF PartsNext, InServers, InEndpoint, InPreviews, InShells, InTools, InGit, vars,
           agentVars
<1>3. Inv => AddedHold
  BY ExtensionsAsHeld, SkillsAsHeld DEF AddedHold
<1> HIDE DEF Inv
<1> QED
  BY <1>1, <1>2, <1>3, PTL DEF PartsSpec
-----------------------------------------------------------------------------
(* The repository: its commits, each with a parent before it. *)
Commits == [tree : Git!Trees, parent : Git!Hashes]
Upto(cs) == 0 .. Len(cs)
Older(cs) == \A c \in 1 .. Len(cs) : cs[c].parent \in 0 .. c - 1

RepoTypes ==
  /\ disk \in Git!Trees /\ index \in Git!Trees /\ writes \in 0 .. MaxWrites
  /\ commits \in Seq(Commits) /\ Len(commits) <= MaxCommits /\ Older(commits)
  /\ tips \in [Git!Branches -> Upto(commits)] /\ origin \in [Git!Branches -> Upto(commits)]
  /\ branch \in Git!Branches
WriterTypes ==
  /\ head \in [Git!Writers -> {"off", "working", "staged", "committed", "pushing", "cleaning"}]
  /\ parents \in [Git!Writers -> Upto(commits)] /\ checkpoint \in [Sessions -> Upto(commits)]
  /\ pushing \in 0 .. MaxPushes /\ requests \in 0 .. MaxRequests
  /\ leftBy \in [Sessions -> Git!Trees] /\ mixed \subseteq Sessions
  /\ dropped \subseteq Upto(commits)
RepoFlags == inited \in BOOLEAN /\ linked \in BOOLEAN /\ raced \in BOOLEAN

(* What commit c of cs has before it, and its files. *)
AncestralIn(cs, S) == \A c \in S : cs[c].parent \in S \cup {0}
HistoryIn(cs, h) ==
  {c \in 1 .. Len(cs) : \A S \in SUBSET (1 .. Len(cs)) :
     AncestralIn(cs, S) /\ h \in S \cup {0} => c \in S}
TreeIn(cs, h) == IF h = 0 THEN Git!Nothing ELSE cs[h].tree

(* A snapshot nobody met: what is staged, then what HEAD has, is what the turn left. *)
SnapshotHeld(s) ==
  s \notin mixed =>
    /\ head[s] = "staged" => index = leftBy[s]
    /\ head[s] = "committed" =>
         tips[branch] # 0 /\ TreeIn(commits, tips[branch]) = leftBy[s]
    /\ head[s] \notin {"staged", "committed"} /\ checkpoint[s] # 0 =>
         TreeIn(commits, checkpoint[s]) = leftBy[s]

Reached(cs, h, ts) == \E b \in Git!Branches : h \in HistoryIn(cs, ts[b])
CommitsHeld ==
  raced \/ \A h \in 1 .. Len(commits) :
             h \in dropped \/ Reached(commits, h, tips) \/ Reached(commits, h, origin)

RepoIInv ==
  /\ RepoTypes /\ WriterTypes /\ RepoFlags /\ CommitsHeld
  /\ \A s \in Sessions : SnapshotHeld(s)
-----------------------------------------------------------------------------

LEMMA HistoryIs ==
  ASSUME NEW h
  PROVE  Git!History(h) = HistoryIn(commits, h) /\ Git!Tree(h) = TreeIn(commits, h)
BY DEF Git!History, HistoryIn, Git!Ancestral, AncestralIn, Git!Tree, TreeIn

LEMMA HistoryLeads ==
  ASSUME NEW cs, NEW h
  PROVE  /\ HistoryIn(cs, h) \subseteq 1 .. Len(cs)
         /\ AncestralIn(cs, HistoryIn(cs, h)) \/ ~AncestralIn(cs, 1 .. Len(cs))
         /\ h \in 1 .. Len(cs) => h \in HistoryIn(cs, h)
         /\ HistoryIn(cs, 0) = {}
         /\ \A S \in SUBSET (1 .. Len(cs)) :
              AncestralIn(cs, S) /\ h \in S \cup {0} => HistoryIn(cs, h) \subseteq S
<1>1. HistoryIn(cs, h) \subseteq 1 .. Len(cs)
  BY DEF HistoryIn
<1>2. ASSUME AncestralIn(cs, 1 .. Len(cs))
      PROVE  AncestralIn(cs, HistoryIn(cs, h))
  <2>1. SUFFICES ASSUME NEW c \in HistoryIn(cs, h), cs[c].parent # 0
                 PROVE  cs[c].parent \in HistoryIn(cs, h)
    BY DEF AncestralIn
  <2>2. cs[c].parent \in 1 .. Len(cs)
    BY <1>1, <1>2, <2>1 DEF AncestralIn
  <2>3. ASSUME NEW S \in SUBSET (1 .. Len(cs)), AncestralIn(cs, S), h \in S \cup {0}
        PROVE  cs[c].parent \in S
    <3>1. c \in S
      BY <2>3 DEF HistoryIn
    <3> QED
      BY <2>1, <2>3, <3>1 DEF AncestralIn
  <2> QED
    BY <2>2, <2>3 DEF HistoryIn
<1>3. h \in 1 .. Len(cs) => h \in HistoryIn(cs, h)
  BY DEF HistoryIn
<1>4. HistoryIn(cs, 0) = {}
  <2>1. AncestralIn(cs, {}) /\ {} \in SUBSET (1 .. Len(cs))
    BY DEF AncestralIn
  <2> QED
    BY <2>1 DEF HistoryIn
<1>5. \A S \in SUBSET (1 .. Len(cs)) :
        AncestralIn(cs, S) /\ h \in S \cup {0} => HistoryIn(cs, h) \subseteq S
  BY DEF HistoryIn
<1> QED
  BY <1>1, <1>2, <1>3, <1>4, <1>5

(* What a commit has before it has nothing else before it. *)
LEMMA HistoryWithin ==
  ASSUME NEW cs, Older(cs), Len(cs) \in Nat, NEW h, NEW g \in HistoryIn(cs, h) \cup {0}
  PROVE  HistoryIn(cs, g) \subseteq HistoryIn(cs, h)
<1>1. AncestralIn(cs, 1 .. Len(cs))
  BY DEF AncestralIn, Older
<1>2. HistoryIn(cs, h) \in SUBSET (1 .. Len(cs)) /\ AncestralIn(cs, HistoryIn(cs, h))
  BY <1>1, HistoryLeads
<1> QED
  BY <1>2, HistoryLeads

(* A new commit takes nothing away, and has its parent's before it. *)
LEMMA HistoryGrows ==
  ASSUME NEW cs \in Seq(Commits), Older(cs), NEW m \in Commits, NEW h \in Upto(cs),
         m.parent \in Upto(cs)
  PROVE  /\ Older(Append(cs, m)) /\ Len(Append(cs, m)) = Len(cs) + 1
         /\ HistoryIn(cs, h) \subseteq HistoryIn(Append(cs, m), h)
         /\ TreeIn(Append(cs, m), h) = TreeIn(cs, h)
         /\ HistoryIn(cs, m.parent) \subseteq HistoryIn(Append(cs, m), Len(cs) + 1)
         /\ Len(cs) + 1 \in HistoryIn(Append(cs, m), Len(cs) + 1)
         /\ TreeIn(Append(cs, m), Len(cs) + 1) = m.tree
<1> DEFINE ds == Append(cs, m)  n == Len(cs)
<1>1. /\ n \in Nat /\ Len(ds) = n + 1 /\ ds[n + 1] = m
      /\ \A c \in 1 .. n : ds[c] = cs[c]
  OBVIOUS
<1> HIDE DEF ds
<1>2. Older(ds)
  BY <1>1 DEF Older, Upto
<1>3. ASSUME NEW g \in Upto(cs), NEW S \in SUBSET (1 .. Len(ds)), AncestralIn(ds, S),
             g \in S \cup {0}
      PROVE  HistoryIn(cs, g) \subseteq S
  <2> DEFINE T == S \cap (1 .. n)
  <2>1. AncestralIn(cs, T)
    <3>1. SUFFICES ASSUME NEW c \in T
                   PROVE  cs[c].parent \in T \cup {0}
      BY DEF AncestralIn
    <3>2. ds[c].parent \in S \cup {0} /\ ds[c] = cs[c]
      BY <1>1, <1>3 DEF AncestralIn
    <3>3. cs[c].parent \in 0 .. c - 1 /\ c \in 1 .. n
      BY DEF Older
    <3> QED
      BY <1>1, <3>2, <3>3
  <2>2. g \in T \cup {0}
    BY <1>1, <1>3 DEF Upto
  <2> QED
    BY <2>1, <2>2, HistoryLeads
<1>4. HistoryIn(cs, h) \subseteq HistoryIn(ds, h)
  <2>1. HistoryIn(cs, h) \subseteq 1 .. Len(ds)
    BY <1>1, HistoryLeads
  <2> QED
    BY <1>3, <2>1 DEF HistoryIn
<1>5. HistoryIn(cs, m.parent) \subseteq HistoryIn(ds, n + 1)
  <2>1. HistoryIn(cs, m.parent) \subseteq 1 .. Len(ds)
    BY <1>1, HistoryLeads
  <2>2. ASSUME NEW S \in SUBSET (1 .. Len(ds)), AncestralIn(ds, S), n + 1 \in S
        PROVE  HistoryIn(cs, m.parent) \subseteq S
    <3>1. m.parent \in S \cup {0}
      BY <1>1, <2>2 DEF AncestralIn
    <3> QED
      BY <1>3, <2>2, <3>1
  <2>3. n + 1 # 0
    BY <1>1
  <2> QED
    BY <2>1, <2>2, <2>3 DEF HistoryIn
<1>6. n + 1 \in HistoryIn(ds, n + 1)
  BY <1>1, HistoryLeads
<1>7. TreeIn(ds, h) = TreeIn(cs, h) /\ TreeIn(ds, n + 1) = m.tree
  BY <1>1 DEF TreeIn, Upto
<1> QED
  BY <1>1, <1>2, <1>4, <1>5, <1>6, <1>7 DEF ds

-----------------------------------------------------------------------------
LEMMA TreesHeld ==
  ASSUME RepoTypes
  PROVE  /\ Git!Nothing \in Git!Trees /\ Git!HeadHash \in Upto(commits)
         /\ \A h \in Upto(commits) : Git!Tree(h) \in Git!Trees
         /\ \A t \in Git!Trees : Git!Restored(t) \subseteq Git!Trees
<1> USE RepoAssumption
<1>1. Git!Nothing \in Git!Trees
  BY DEF Git!Nothing, Git!Trees
<1>2. Git!HeadHash \in Upto(commits)
  BY DEF RepoTypes, Git!HeadHash
<1>3. ASSUME NEW h \in Upto(commits)
      PROVE  Git!Tree(h) \in Git!Trees
  <2>1. CASE h = 0
    BY <1>1, <2>1 DEF Git!Tree
  <2>2. CASE h # 0
    <3>1. commits \in Seq(Commits) /\ h \in 1 .. Len(commits)
      BY <2>2 DEF RepoTypes, Upto
    <3>2. commits[h] \in Commits
      BY <3>1
    <3> QED
      BY <2>2, <3>2 DEF Commits, Git!Tree
  <2> QED
    BY <2>1, <2>2
<1>4. \A t \in Git!Trees : Git!Restored(t) \subseteq Git!Trees
  BY DEF Git!Restored
<1> QED
  BY <1>1, <1>2, <1>3, <1>4

(* Everything that named a commit still does when there is one more. *)
LEMMA CommitsGrow ==
  ASSUME RepoTypes, NEW m \in Commits, m.parent \in Upto(commits),
         commits' = Append(commits, m), Len(commits) < MaxCommits
  PROVE  /\ commits' \in Seq(Commits) /\ Len(commits') = Len(commits) + 1
         /\ Len(commits') <= MaxCommits /\ Len(commits') \in Nat /\ Older(commits')
         /\ Upto(commits) \subseteq Upto(commits') /\ Len(commits) + 1 \in Upto(commits')
         /\ 1 .. Len(commits') = (1 .. Len(commits)) \cup {Len(commits) + 1}
<1>1. commits \in Seq(Commits) /\ Len(commits) \in Nat /\ Older(commits) /\ MaxCommits \in Nat
  BY RepoAssumption DEF RepoTypes
<1>2. commits' \in Seq(Commits) /\ Len(commits') = Len(commits) + 1 /\ Older(commits')
  BY <1>1, HistoryGrows
<1> QED
  BY <1>1, <1>2 DEF Upto

LEMMA CommitTyped ==
  ASSUME RepoTypes, WriterTypes, NEW w \in Git!Writers, Git!CommitIndex(w)
  PROVE  /\ [tree |-> index, parent |-> parents[w]] \in Commits
         /\ parents[w] \in Upto(commits) /\ Len(commits) < MaxCommits
         /\ commits' = Append(commits, [tree |-> index, parent |-> parents[w]])
<1>1. parents[w] \in Upto(commits) /\ index \in Git!Trees
  BY DEF RepoTypes, WriterTypes
<1>2. parents[w] \in Git!Hashes
  BY <1>1, RepoAssumption DEF RepoTypes, Upto, Git!Hashes
<1> QED
  BY <1>1, <1>2 DEF Commits, Git!CommitIndex

LEMMA OthersTyped ==
  ASSUME RepoTypes, Git!OthersPush
  PROVE  /\ [tree |-> Git!Nothing, parent |-> origin["main"]] \in Commits
         /\ origin["main"] \in Upto(commits) /\ Len(commits) < MaxCommits
         /\ commits' = Append(commits, [tree |-> Git!Nothing, parent |-> origin["main"]])
<1>1. origin["main"] \in Upto(commits)
  BY DEF RepoTypes, Git!Branches
<1>2. origin["main"] \in Git!Hashes
  BY <1>1, RepoAssumption DEF RepoTypes, Upto, Git!Hashes
<1> QED
  BY <1>1, <1>2, TreesHeld DEF Commits, Git!OthersPush

-----------------------------------------------------------------------------
LEMMA RepoInit ==
  ASSUME Git!Init
  PROVE  RepoIInv
<1> USE RepoAssumption DEF Git!Init
<1>1. Git!Nothing \in Git!Trees
  BY DEF Git!Nothing, Git!Trees
<1>2. commits = <<>> /\ Len(commits) = 0 /\ Upto(commits) = {0} /\ commits \in Seq(Commits)
  BY DEF Upto
<1>3. RepoTypes
  BY <1>1, <1>2 DEF RepoTypes, Git!Branches, Older
<1>4. WriterTypes
  BY <1>1, <1>2 DEF WriterTypes, Git!Writers, Git!Request
<1>5. RepoFlags
  BY DEF RepoFlags
<1>6. CommitsHeld
  BY <1>2 DEF CommitsHeld
<1>7. \A s \in Sessions : SnapshotHeld(s)
  BY DEF SnapshotHeld, Git!Writers, Git!Request
<1> QED
  BY <1>3, <1>4, <1>5, <1>6, <1>7 DEF RepoIInv

-----------------------------------------------------------------------------
LEMMA RepoTypesStep ==
  ASSUME RepoTypes, WriterTypes, Git!Next
  PROVE  RepoTypes'
<1> USE RepoAssumption, TreesHeld DEF RepoTypes, WriterTypes, Git!treeVars, Git!branchVars, Git!Writers, Git!Request
<1>1. ASSUME NEW s \in Sessions, Git!Snapshot(s)
      PROVE  RepoTypes'
  BY <1>1 DEF Git!Snapshot, Git!StageAll
<1>2. ASSUME NEW s \in Sessions, Git!SnapshotCommits(s)
      PROVE  RepoTypes'
  <2>1. Git!CommitIndex(s) /\ s \in Git!Writers
    BY <1>2 DEF Git!SnapshotCommits, Git!Writers, Git!Request
  <2>2. commits' \in Seq(Commits) /\ Len(commits') <= MaxCommits /\ Older(commits')
        /\ Upto(commits) \subseteq Upto(commits') /\ Len(commits) + 1 \in Upto(commits')
    BY <2>1, CommitTyped, CommitsGrow
  <2> QED
    BY <1>2, <2>1, <2>2 DEF Git!SnapshotCommits, Git!CommitIndex
<1>3. ASSUME NEW s \in Sessions, Git!StampTurn(s)
      PROVE  RepoTypes'
  BY <1>3 DEF Git!StampTurn, Git!ghosts
<1>4. ASSUME NEW s \in Sessions, Git!EndTurn(s)
      PROVE  RepoTypes'
  BY <1>4 DEF Git!EndTurn
<1>5. ASSUME NEW s \in Sessions, NEW f \in Files, Git!WriteFile(s, f)
      PROVE  RepoTypes'
  <2>1. PICK c \in {0, writes + 1} : disk' = [disk EXCEPT ![f] = c]
    BY <1>5 DEF Git!WriteFile
  <2>2. writes' \in 0 .. MaxWrites /\ c \in 0 .. MaxWrites
    BY <1>5 DEF Git!WriteFile
  <2>3. disk' \in Git!Trees
    BY <2>1, <2>2 DEF Git!Trees
  <2> QED
    BY <1>5, <2>2, <2>3 DEF Git!WriteFile
<1>6. CASE Git!AutoPush
  BY <1>6 DEF Git!AutoPush, Git!PushBranches
<1>7. CASE Git!OthersPush
  <2>1. commits' \in Seq(Commits) /\ Len(commits') <= MaxCommits /\ Older(commits')
        /\ Upto(commits) \subseteq Upto(commits') /\ Len(commits) + 1 \in Upto(commits')
    BY <1>7, OthersTyped, CommitsGrow
  <2> QED
    BY <1>7, <2>1 DEF Git!OthersPush
<1>8. CASE Git!InitRepo
  BY <1>8 DEF Git!InitRepo, Git!StageAll
<1>9. CASE Git!InitAndPush
  <2>1. 0 \in Upto(commits)
    BY DEF Upto
  <2>2. origin' \in [Git!Branches -> Upto(commits)]
    BY <1>9, <2>1 DEF Git!InitAndPush
  <2> QED
    BY <1>9, <2>2 DEF Git!InitAndPush, Git!StageAll
<1>10. CASE Git!CommitRequest
  BY <1>10 DEF Git!CommitRequest, Git!StageAll
<1>11. CASE Git!RequestCommits
  <2>1. Git!CommitIndex(Git!Request) /\ Git!Request \in Git!Writers
    BY <1>11 DEF Git!RequestCommits, Git!Writers, Git!Request
  <2>2. commits' \in Seq(Commits) /\ Len(commits') <= MaxCommits /\ Older(commits')
        /\ Upto(commits) \subseteq Upto(commits') /\ Len(commits) + 1 \in Upto(commits')
    BY <2>1, CommitTyped, CommitsGrow
  <2> QED
    BY <1>11, <2>1, <2>2 DEF Git!RequestCommits, Git!CommitIndex
<1>12. CASE Git!RequestEnds
  BY <1>12 DEF Git!RequestEnds, Git!PushBranches
<1>13. CASE Git!Link
  <2>1. 0 \in Upto(commits) /\ "main" \in Git!Branches /\ origin["main"] \in Upto(commits)
    BY DEF Upto, Git!Branches
  <2>2. tips' \in [Git!Branches -> Upto(commits)]
    BY <1>13, <2>1 DEF Git!Link
  <2>3. disk' \in Git!Trees /\ index' \in Git!Trees
    BY <1>13, <2>1 DEF Git!Link
  <2> QED
    BY <1>13, <2>1, <2>2, <2>3 DEF Git!Link
<1>14. CASE Git!CreateBranch
  <2>1. disk' \in Git!Trees /\ index' \in Git!Trees
    BY <1>14 DEF Git!CreateBranch, Git!MergeReset
  <2>2. "side" \in Git!Branches
    BY DEF Git!Branches
  <2> QED
    BY <1>14, <2>1, <2>2 DEF Git!CreateBranch
<1>15. CASE Git!Pull
  BY <1>15 DEF Git!Pull, Git!MergeReset
<1>16. CASE Git!DiscardAll
  BY <1>16 DEF Git!DiscardAll
<1>17. CASE Git!DiscardResets
  BY <1>17 DEF Git!DiscardResets, Git!HardReset
<1>18. CASE Git!DiscardCleans
  BY <1>18 DEF Git!DiscardCleans, Git!Trees
<1>19. ASSUME NEW b \in Git!Branches, Git!CheckoutBranch(b)
       PROVE  RepoTypes'
  BY <1>19 DEF Git!CheckoutBranch
<1>20. ASSUME NEW h \in 1 .. Len(commits), Git!RevertTo(h)
       PROVE  RepoTypes'
  BY <1>20 DEF Git!RevertTo, Git!HardReset, Upto
<1>21. ASSUME NEW f \in Files, Git!DiscardFile(f)
       PROVE  RepoTypes'
  <2>1. Git!Tree(Git!HeadHash) \in Git!Trees
    OBVIOUS
  <2> DEFINE c == Git!Tree(Git!HeadHash)[f]
  <2>2. c \in 0 .. MaxWrites /\ 0 \in 0 .. MaxWrites
    BY <2>1 DEF Git!Trees
  <2>3. /\ disk' \in {disk, [disk EXCEPT ![f] = 0], [disk EXCEPT ![f] = c]}
        /\ index' \in {index, [index EXCEPT ![f] = disk'[f]]}
    BY <1>21 DEF Git!DiscardFile
  <2> HIDE DEF c
  <2>4. disk' \in Git!Trees
    <3>1. [disk EXCEPT ![f] = 0] \in Git!Trees /\ [disk EXCEPT ![f] = c] \in Git!Trees
      BY <2>2 DEF Git!Trees
    <3> QED
      BY <2>3, <3>1
  <2>5. index' \in Git!Trees
    BY <2>3, <2>4 DEF Git!Trees
  <2> QED
    BY <1>21, <2>4, <2>5 DEF Git!DiscardFile
<1>22. ASSUME NEW fs \in SUBSET Files, Git!Stage(fs)
       PROVE  RepoTypes'
  BY <1>22 DEF Git!Stage, Git!Trees
<1> QED
  BY <1>1, <1>2, <1>3, <1>4, <1>5, <1>6, <1>7, <1>8, <1>9, <1>10, <1>11, <1>12, <1>13, <1>14,
     <1>15, <1>16, <1>17, <1>18, <1>19, <1>20, <1>21, <1>22
     DEF Git!Next, Git!Requests
LEMMA WriterTypesStep ==
  ASSUME RepoTypes, WriterTypes, Git!Next
  PROVE  WriterTypes'
<1>0. /\ Git!HeadHash \in Upto(commits) /\ 0 \in Upto(commits)
      /\ \A h : Git!History(h) \subseteq Upto(commits)
  BY TreesHeld, HistoryIs, HistoryLeads DEF RepoTypes, Upto
<1> USE RepoAssumption, <1>0 DEF WriterTypes, Git!Writers, Git!Request, Git!Move, Git!Mix, Git!MetBy,
        Git!branchVars, Git!turnVars, Git!ghosts, Git!KeepsTurns, Git!Idle, Git!GoesOn
<1>1. ASSUME NEW s \in Sessions, Git!Snapshot(s)
      PROVE  WriterTypes'
  <2>1. CASE inited
    <3>1. head' \in [Git!Writers -> {"off", "working", "staged", "committed", "pushing", "cleaning"}]
      BY <1>1, <2>1 DEF Git!Snapshot
    <3>2. parents' \in [Git!Writers -> Upto(commits)]
      BY <1>1, <2>1 DEF Git!Snapshot, Git!StageAll
    <3>3. leftBy' \in [Sessions -> Git!Trees] /\ mixed' \subseteq Sessions
      BY <1>1, <2>1 DEF Git!Snapshot, RepoTypes
    <3> QED
      BY <1>1, <2>1, <3>1, <3>2, <3>3 DEF Git!Snapshot
  <2>2. CASE ~inited
    BY <1>1, <2>2 DEF Git!Snapshot
  <2> QED
    BY <2>1, <2>2
<1>2. ASSUME NEW s \in Sessions, Git!SnapshotCommits(s)
      PROVE  WriterTypes'
  <2>1. Git!CommitIndex(s) /\ s \in Git!Writers
    BY <1>2 DEF Git!SnapshotCommits
  <2>2. Upto(commits) \subseteq Upto(commits')
    BY <2>1, CommitTyped, CommitsGrow
  <2> QED
    BY <1>2, <2>1, <2>2 DEF Git!SnapshotCommits, Git!CommitIndex
<1>3. ASSUME NEW s \in Sessions, Git!StampTurn(s)
      PROVE  WriterTypes'
  BY <1>3 DEF Git!StampTurn, Git!Stamped
<1>4. ASSUME NEW s \in Sessions, Git!EndTurn(s)
      PROVE  WriterTypes'
  BY <1>4 DEF Git!EndTurn
<1>5. ASSUME NEW s \in Sessions, NEW f \in Files, Git!WriteFile(s, f)
      PROVE  WriterTypes'
  BY <1>5 DEF Git!WriteFile
<1>6. CASE Git!AutoPush
  BY <1>6 DEF Git!AutoPush
<1>7. CASE Git!OthersPush
  <2>1. Upto(commits) \subseteq Upto(commits')
    BY <1>7, OthersTyped, CommitsGrow
  <2> QED
    BY <1>7, <2>1 DEF Git!OthersPush
<1>8. CASE Git!InitRepo
  BY <1>8 DEF Git!InitRepo, Git!StageAll
<1>9. CASE Git!InitAndPush
  BY <1>9 DEF Git!InitAndPush, Git!StageAll
<1>10. CASE Git!CommitRequest
  BY <1>10 DEF Git!CommitRequest, Git!StageAll
<1>11. CASE Git!RequestCommits
  <2>1. Git!CommitIndex(Git!Request) /\ Git!Request \in Git!Writers
    BY <1>11 DEF Git!RequestCommits
  <2>2. Upto(commits) \subseteq Upto(commits')
    BY <2>1, CommitTyped, CommitsGrow
  <2> QED
    BY <1>11, <2>1, <2>2 DEF Git!RequestCommits, Git!CommitIndex
<1>12. CASE Git!RequestEnds
  BY <1>12 DEF Git!RequestEnds
<1>13. CASE Git!Link
  BY <1>13 DEF Git!Link
<1>14. CASE Git!CreateBranch
  BY <1>14 DEF Git!CreateBranch
<1>15. CASE Git!Pull
  BY <1>15 DEF Git!Pull
<1>16. CASE Git!DiscardAll
  BY <1>16 DEF Git!DiscardAll
<1>17. CASE Git!DiscardResets
  BY <1>17 DEF Git!DiscardResets, Git!HardReset
<1>18. CASE Git!DiscardCleans
  BY <1>18 DEF Git!DiscardCleans
<1>19. ASSUME NEW b \in Git!Branches, Git!CheckoutBranch(b)
       PROVE  WriterTypes'
  BY <1>19 DEF Git!CheckoutBranch
<1>20. ASSUME NEW h \in 1 .. Len(commits), Git!RevertTo(h)
       PROVE  WriterTypes'
  BY <1>20 DEF Git!RevertTo, Git!HardReset
<1>21. ASSUME NEW f \in Files, Git!DiscardFile(f)
       PROVE  WriterTypes'
  BY <1>21 DEF Git!DiscardFile
<1>22. ASSUME NEW fs \in SUBSET Files, Git!Stage(fs)
       PROVE  WriterTypes'
  BY <1>22 DEF Git!Stage
<1> QED
  BY <1>1, <1>2, <1>3, <1>4, <1>5, <1>6, <1>7, <1>8, <1>9, <1>10, <1>11, <1>12, <1>13, <1>14,
     <1>15, <1>16, <1>17, <1>18, <1>19, <1>20, <1>21, <1>22
     DEF Git!Next, Git!Requests

(* What a step of somebody else leaves of a snapshot. *)
LEMMA SnapshotStays ==
  ASSUME NEW s \in Sessions, SnapshotHeld(s), WriterTypes, Upto(commits) \subseteq Upto(commits'),
         \A h \in Upto(commits) : TreeIn(commits', h) = TreeIn(commits, h),
         tips \in [Git!Branches -> Upto(commits)], branch \in Git!Branches,
         head'[s] = head[s], checkpoint'[s] = checkpoint[s], leftBy'[s] = leftBy[s],
         s \in mixed => s \in mixed',
         \/ head[s] \notin {"staged", "committed"} \/ s \in mixed'
         \/ index' = index /\ tips'[branch'] = tips[branch]
  PROVE  SnapshotHeld(s)'
<1>1. checkpoint[s] \in Upto(commits) /\ tips[branch] \in Upto(commits)
  BY DEF WriterTypes
<1>2. CASE s \in mixed'
  BY <1>2 DEF SnapshotHeld
<1>3. CASE s \notin mixed' /\ head[s] \notin {"staged", "committed"}
  BY <1>1, <1>3 DEF SnapshotHeld
<1>4. CASE s \notin mixed' /\ index' = index /\ tips'[branch'] = tips[branch]
  BY <1>1, <1>4 DEF SnapshotHeld
<1> QED
  BY <1>2, <1>3, <1>4

LEMMA RepoFlagsStep ==
  ASSUME RepoFlags, Git!Next
  PROVE  RepoFlags'
<1> USE DEF Git!branchVars, Git!treeVars, Git!ghosts
<1>1. inited' = inited \/ inited' = TRUE \/ inited' = FALSE
  BY Zenon DEF Git!Next, Git!Requests, Git!Snapshot, Git!SnapshotCommits, Git!StampTurn, Git!EndTurn,
     Git!WriteFile, Git!AutoPush, Git!OthersPush, Git!InitRepo, Git!InitAndPush, Git!CommitRequest,
     Git!RequestCommits, Git!RequestEnds, Git!Link, Git!CreateBranch, Git!Pull, Git!DiscardAll,
     Git!DiscardResets, Git!DiscardCleans, Git!CheckoutBranch, Git!RevertTo, Git!DiscardFile,
     Git!Stage
<1>2. linked' = linked \/ linked' = TRUE \/ linked' = FALSE
  BY Zenon DEF Git!Next, Git!Requests, Git!Snapshot, Git!SnapshotCommits, Git!StampTurn, Git!EndTurn,
     Git!WriteFile, Git!AutoPush, Git!OthersPush, Git!InitRepo, Git!InitAndPush, Git!CommitRequest,
     Git!RequestCommits, Git!RequestEnds, Git!Link, Git!CreateBranch, Git!Pull, Git!DiscardAll,
     Git!DiscardResets, Git!DiscardCleans, Git!CheckoutBranch, Git!RevertTo, Git!DiscardFile,
     Git!Stage
<1>3. raced' = raced \/ (\E w : raced' = (raced \/ parents[w] # Git!HeadHash))
  BY Zenon DEF Git!Next, Git!Requests, Git!Snapshot, Git!SnapshotCommits, Git!StampTurn, Git!EndTurn,
     Git!WriteFile, Git!AutoPush, Git!OthersPush, Git!InitRepo, Git!InitAndPush, Git!CommitRequest,
     Git!RequestCommits, Git!RequestEnds, Git!Link, Git!CreateBranch, Git!Pull, Git!DiscardAll,
     Git!DiscardResets, Git!DiscardCleans, Git!CheckoutBranch, Git!RevertTo, Git!DiscardFile,
     Git!Stage, Git!CommitIndex
<1>4. inited' \in BOOLEAN
  BY <1>1, Zenon DEF RepoFlags
<1>5. linked' \in BOOLEAN
  BY <1>2, Zenon DEF RepoFlags
<1>6. raced' \in BOOLEAN
  <2>1. CASE raced' = raced
    BY <2>1, Zenon DEF RepoFlags
  <2>2. ASSUME NEW w, raced' = (raced \/ parents[w] # Git!HeadHash)
        PROVE  raced' \in BOOLEAN
    BY <2>2, Zenon
  <2> QED
    BY <1>3, <2>1, <2>2, Zenon
<1> QED
  BY <1>4, <1>5, <1>6, Zenon DEF RepoFlags

-----------------------------------------------------------------------------
LEMMA ReachedStays ==
  ASSUME NEW cs, NEW ds, NEW ts, NEW us,
         \A b \in Git!Branches : HistoryIn(cs, ts[b]) \subseteq HistoryIn(ds, us[b])
  PROVE  \A h : Reached(cs, h, ts) => Reached(ds, h, us)
BY DEF Reached

(* A step that adds no commit loses none that a branch led to. *)
LEMMA CommitsStay ==
  ASSUME CommitsHeld, commits' = commits, dropped \subseteq dropped', ~raced' => ~raced,
         \A h : Reached(commits, h, tips) \/ Reached(commits, h, origin) =>
           h \in dropped' \/ Reached(commits, h, tips') \/ Reached(commits, h, origin')
  PROVE  CommitsHeld'
BY DEF CommitsHeld

LEMMA CommitsAdded ==
  ASSUME RepoTypes, CommitsHeld, NEW m \in Commits, m.parent \in Upto(commits),
         commits' = Append(commits, m), Len(commits) < MaxCommits, dropped \subseteq dropped',
         ~raced' => ~raced,
         ~raced' => \/ m.parent = tips[branch] /\ origin' = origin
                       /\ tips' = [tips EXCEPT ![branch] = Len(commits) + 1]
                    \/ m.parent = origin["main"] /\ tips' = tips
                       /\ origin' = [origin EXCEPT !["main"] = Len(commits) + 1]
  PROVE  CommitsHeld'
<1>1. SUFFICES ASSUME ~raced'
               PROVE  CommitsHeld'
  BY DEF CommitsHeld
<1> DEFINE n == Len(commits)
<1>2. /\ tips \in [Git!Branches -> Upto(commits)] /\ origin \in [Git!Branches -> Upto(commits)]
      /\ branch \in Git!Branches /\ "main" \in Git!Branches
  BY DEF RepoTypes, Git!Branches
<1>3. /\ \A h \in Upto(commits) : HistoryIn(commits, h) \subseteq HistoryIn(commits', h)
      /\ HistoryIn(commits, m.parent) \subseteq HistoryIn(commits', n + 1)
      /\ n + 1 \in HistoryIn(commits', n + 1)
  BY HistoryGrows DEF RepoTypes
<1>4. 1 .. Len(commits') = (1 .. n) \cup {n + 1}
  BY CommitsGrow
<1>5. /\ \A b \in Git!Branches : HistoryIn(commits, tips[b]) \subseteq HistoryIn(commits', tips'[b])
      /\ \A b \in Git!Branches : HistoryIn(commits, origin[b]) \subseteq HistoryIn(commits', origin'[b])
      /\ \E b \in Git!Branches : tips'[b] = n + 1 \/ origin'[b] = n + 1
  BY <1>1, <1>2, <1>3
<1>6. \A h : Reached(commits, h, tips) => Reached(commits', h, tips')
  BY <1>5, ReachedStays
<1>7. \A h : Reached(commits, h, origin) => Reached(commits', h, origin')
  BY <1>5, ReachedStays
<1>8. Reached(commits', n + 1, tips') \/ Reached(commits', n + 1, origin')
  BY <1>3, <1>5 DEF Reached
<1> QED
  BY <1>1, <1>4, <1>6, <1>7, <1>8 DEF CommitsHeld

(* A push that is not forced leaves the remote what it had, or has it behind a tip. *)
LEMMA PushKeeps ==
  ASSUME RepoTypes, NEW bs \in SUBSET Git!Branches, Git!PushBranches(bs), NEW h,
         Reached(commits, h, origin)
  PROVE  Reached(commits, h, tips) \/ Reached(commits, h, origin')
<1>1. PICK b \in Git!Branches : h \in HistoryIn(commits, origin[b])
  BY DEF Reached
<1>2. CASE origin'[b] = origin[b]
  BY <1>1, <1>2 DEF Reached
<1>3. CASE origin'[b] # origin[b]
  <2>1. b \in bs /\ tips[b] # 0 /\ Git!Forward(bs)
    BY <1>3 DEF Git!PushBranches, RepoTypes
  <2>2. origin[b] \in HistoryIn(commits, tips[b]) \cup {0}
    BY <2>1, HistoryIs DEF Git!Forward
  <2>3. Older(commits) /\ Len(commits) \in Nat
    BY DEF RepoTypes
  <2>4. HistoryIn(commits, origin[b]) \subseteq HistoryIn(commits, tips[b])
    BY <2>2, <2>3, HistoryWithin
  <2> QED
    BY <1>1, <2>4 DEF Reached
<1> QED
  BY <1>2, <1>3

LEMMA CommitsStep ==
  ASSUME RepoTypes, WriterTypes, CommitsHeld, Git!Next
  PROVE  CommitsHeld'
<1> USE DEF Git!branchVars, Git!ghosts
<1>1. ASSUME NEW s \in Sessions, Git!Snapshot(s)
      PROVE  CommitsHeld'
  <2>1. UNCHANGED <<commits, tips, origin, dropped, raced>>
    BY <1>1, Zenon DEF Git!Snapshot
  <2> QED
    BY <2>1, CommitsStay
<1>2. ASSUME NEW s \in Sessions, Git!SnapshotCommits(s)
      PROVE  CommitsHeld'
  <2>1. Git!CommitIndex(s) /\ origin' = origin /\ dropped' = dropped
    BY <1>2, Zenon DEF Git!SnapshotCommits
  <2>2. /\ tips' = [tips EXCEPT ![branch] = Len(commits) + 1]
        /\ ~raced' => ~raced /\ parents[s] = tips[branch]
    BY <2>1, Zenon DEF Git!CommitIndex, Git!HeadHash
  <2> DEFINE m == [tree |-> index, parent |-> parents[s]]
  <2>3. /\ m \in Commits /\ m.parent = parents[s] /\ m.parent \in Upto(commits)
        /\ commits' = Append(commits, m) /\ Len(commits) < MaxCommits
    BY <2>1, CommitTyped DEF Git!Writers
  <2> HIDE DEF m
  <2> QED
    BY <2>1, <2>2, <2>3, CommitsAdded
<1>3. ASSUME NEW s \in Sessions, Git!StampTurn(s)
      PROVE  CommitsHeld'
  <2>1. UNCHANGED <<commits, tips, origin, dropped, raced>>
    BY <1>3, Zenon DEF Git!StampTurn
  <2> QED
    BY <2>1, CommitsStay
<1>4. ASSUME NEW s \in Sessions, Git!EndTurn(s)
      PROVE  CommitsHeld'
  <2>1. UNCHANGED <<commits, tips, origin, dropped, raced>>
    BY <1>4, Zenon DEF Git!EndTurn
  <2> QED
    BY <2>1, CommitsStay
<1>5. ASSUME NEW s \in Sessions, NEW f \in Files, Git!WriteFile(s, f)
      PROVE  CommitsHeld'
  <2>1. UNCHANGED <<commits, tips, origin, dropped, raced>>
    BY <1>5, Zenon DEF Git!WriteFile
  <2> QED
    BY <2>1, CommitsStay
<1>6. CASE Git!AutoPush
  <2>1. UNCHANGED <<commits, tips, dropped, raced>>
    BY <1>6, Zenon DEF Git!AutoPush
  <2>2. Git!PushBranches(Git!Branches) \/ origin' = origin
    BY <1>6, Zenon DEF Git!AutoPush
  <2>3. Git!Branches \in SUBSET Git!Branches
    BY DEF RepoTypes
  <2> QED
    BY <2>1, <2>2, <2>3, PushKeeps, CommitsStay
<1>7. CASE Git!OthersPush
  <2>1. /\ tips' = tips /\ origin' = [origin EXCEPT !["main"] = Len(commits) + 1]
        /\ dropped' = dropped /\ raced' = raced
    BY <1>7, Zenon DEF Git!OthersPush
  <2> DEFINE m == [tree |-> Git!Nothing, parent |-> origin["main"]]
  <2>2. /\ m \in Commits /\ m.parent = origin["main"] /\ m.parent \in Upto(commits)
        /\ commits' = Append(commits, m) /\ Len(commits) < MaxCommits
    BY <1>7, OthersTyped
  <2> HIDE DEF m
  <2> QED
    BY <2>1, <2>2, CommitsAdded
<1>8. CASE Git!InitRepo
  <2>1. UNCHANGED <<commits, tips, origin, dropped, raced>>
    BY <1>8, Zenon DEF Git!InitRepo
  <2> QED
    BY <2>1, CommitsStay
<1>9. CASE Git!InitAndPush
  <2>1. /\ tips' = tips /\ commits' = commits /\ raced' = raced
        /\ dropped' = dropped \cup UNION {Git!History(origin[b]) \ Git!History(tips[b]) : b \in Git!Branches}
    BY <1>9, Zenon DEF Git!InitAndPush
  <2>2. ASSUME NEW h, Reached(commits, h, origin)
        PROVE  h \in dropped' \/ Reached(commits, h, tips)
    <3>1. PICK b \in Git!Branches : h \in Git!History(origin[b])
      BY <2>2, HistoryIs DEF Reached
    <3>2. CASE h \in Git!History(tips[b])
      BY <3>2, HistoryIs DEF Reached
    <3>3. CASE h \notin Git!History(tips[b])
      BY <2>1, <3>1, <3>3
    <3> QED
      BY <3>2, <3>3
  <2> QED
    BY <2>1, <2>2, CommitsStay
<1>10. CASE Git!CommitRequest
  <2>1. UNCHANGED <<commits, tips, origin, dropped, raced>>
    BY <1>10, Zenon DEF Git!CommitRequest
  <2> QED
    BY <2>1, CommitsStay
<1>11. CASE Git!RequestCommits
  <2>1. Git!CommitIndex(Git!Request) /\ origin' = origin /\ dropped' = dropped
    BY <1>11, Zenon DEF Git!RequestCommits
  <2>2. /\ tips' = [tips EXCEPT ![branch] = Len(commits) + 1]
        /\ ~raced' => ~raced /\ parents[Git!Request] = tips[branch]
    BY <2>1, Zenon DEF Git!CommitIndex, Git!HeadHash
  <2> DEFINE m == [tree |-> index, parent |-> parents[Git!Request]]
  <2>3. /\ m \in Commits /\ m.parent = parents[Git!Request] /\ m.parent \in Upto(commits)
        /\ commits' = Append(commits, m) /\ Len(commits) < MaxCommits
    BY <2>1, CommitTyped DEF Git!Writers
  <2> HIDE DEF m
  <2> QED
    BY <2>1, <2>2, <2>3, CommitsAdded
<1>12. CASE Git!RequestEnds
  <2>1. UNCHANGED <<commits, tips, dropped, raced>>
    BY <1>12, Zenon DEF Git!RequestEnds
  <2>2. Git!PushBranches({branch}) \/ origin' = origin
    BY <1>12, Zenon DEF Git!RequestEnds
  <2>3. {branch} \in SUBSET Git!Branches
    BY DEF RepoTypes
  <2> QED
    BY <2>1, <2>2, <2>3, PushKeeps, CommitsStay
<1>13. CASE Git!Link
  <2>1. /\ origin' = origin /\ commits' = commits /\ raced' = raced
        /\ dropped' = dropped \cup UNION {Git!History(tips[b]) : b \in Git!Branches}
    BY <1>13, Zenon DEF Git!Link
  <2>2. ASSUME NEW h, Reached(commits, h, tips)
        PROVE  h \in dropped'
    BY <2>1, <2>2, HistoryIs DEF Reached
  <2> QED
    BY <2>1, <2>2, CommitsStay
<1>14. CASE Git!CreateBranch
  <2>1. /\ origin' = origin /\ commits' = commits /\ raced' = raced /\ dropped' = dropped
    BY <1>14, Zenon DEF Git!CreateBranch
  <2>2. \A b \in Git!Branches : tips'[b] = tips[b] \/ tips[b] = 0
    BY <1>14 DEF Git!CreateBranch
  <2>3. \A b \in Git!Branches : HistoryIn(commits, tips[b]) \subseteq HistoryIn(commits, tips'[b])
    BY <2>2, HistoryLeads
  <2>4. \A h : Reached(commits, h, tips) => Reached(commits, h, tips')
    BY <2>3, ReachedStays
  <2> QED
    BY <2>1, <2>4, CommitsStay
<1>15. CASE Git!Pull
  <2>1. /\ origin' = origin /\ commits' = commits /\ raced' = raced /\ dropped' = dropped
        /\ tips' = [tips EXCEPT ![branch] = origin[branch]]
    BY <1>15, Zenon DEF Git!Pull
  <2>2. tips[branch] \in HistoryIn(commits, origin[branch]) \cup {0}
    BY <1>15, HistoryIs DEF Git!Pull, Git!HeadHash
  <2>3. HistoryIn(commits, tips[branch]) \subseteq HistoryIn(commits, origin[branch])
    BY <2>2, HistoryWithin DEF RepoTypes
  <2>4. \A b \in Git!Branches : HistoryIn(commits, tips[b]) \subseteq HistoryIn(commits, tips'[b])
    BY <2>1, <2>3 DEF RepoTypes
  <2>5. \A h : Reached(commits, h, tips) => Reached(commits, h, tips')
    BY <2>4, ReachedStays
  <2> QED
    BY <2>1, <2>5, CommitsStay
<1>16. CASE Git!DiscardAll
  <2>1. UNCHANGED <<commits, tips, origin, dropped, raced>>
    BY <1>16, Zenon DEF Git!DiscardAll
  <2> QED
    BY <2>1, CommitsStay
<1>17. CASE Git!DiscardResets
  <2>1. /\ origin' = origin /\ commits' = commits /\ dropped' = dropped
        /\ tips' = [tips EXCEPT ![branch] = parents[Git!Request]]
    BY <1>17, Zenon DEF Git!DiscardResets, Git!HardReset
  <2>2. ~raced' => ~raced /\ parents[Git!Request] = tips[branch]
    BY <1>17, Zenon DEF Git!DiscardResets, Git!HeadHash
  <2>3. CASE raced'
    BY <2>3 DEF CommitsHeld
  <2>4. CASE ~raced'
    <3>1. tips' = tips
      BY <2>1, <2>2, <2>4 DEF RepoTypes
    <3> QED
      BY <2>1, <2>2, <3>1, CommitsStay
  <2> QED
    BY <2>3, <2>4
<1>18. CASE Git!DiscardCleans
  <2>1. UNCHANGED <<commits, tips, origin, dropped, raced>>
    BY <1>18, Zenon DEF Git!DiscardCleans
  <2> QED
    BY <2>1, CommitsStay
<1>19. ASSUME NEW b \in Git!Branches, Git!CheckoutBranch(b)
       PROVE  CommitsHeld'
  <2>1. UNCHANGED <<commits, tips, origin, dropped, raced>>
    BY <1>19, Zenon DEF Git!CheckoutBranch
  <2> QED
    BY <2>1, CommitsStay
<1>20. ASSUME NEW h \in 1 .. Len(commits), Git!RevertTo(h)
       PROVE  CommitsHeld'
  <2>1. /\ origin' = origin /\ commits' = commits /\ raced' = raced
        /\ tips' = [tips EXCEPT ![branch] = h]
        /\ dropped' = dropped \cup (Git!History(tips[branch]) \ Git!History(h))
    BY <1>20, Zenon DEF Git!RevertTo, Git!HardReset, Git!HeadHash
  <2>2. ASSUME NEW g, Reached(commits, g, tips)
        PROVE  g \in dropped' \/ Reached(commits, g, tips')
    <3>1. PICK b \in Git!Branches : g \in Git!History(tips[b])
      BY <2>2, HistoryIs DEF Reached
    <3>2. CASE b = branch
      <4>1. g \in dropped' \/ g \in HistoryIn(commits, tips'[b])
        BY <2>1, <3>1, <3>2, HistoryIs DEF RepoTypes
      <4> QED
        BY <4>1 DEF Reached
    <3>3. CASE b # branch
      <4>1. tips'[b] = tips[b]
        BY <2>1, <3>3 DEF RepoTypes
      <4> QED
        BY <3>1, <4>1, HistoryIs DEF Reached
    <3> QED
      BY <3>2, <3>3
  <2> QED
    BY <2>1, <2>2, CommitsStay
<1>21. ASSUME NEW f \in Files, Git!DiscardFile(f)
       PROVE  CommitsHeld'
  <2>1. UNCHANGED <<commits, tips, origin, dropped, raced>>
    BY <1>21, Zenon DEF Git!DiscardFile
  <2> QED
    BY <2>1, CommitsStay
<1>22. ASSUME NEW fs \in SUBSET Files, Git!Stage(fs)
       PROVE  CommitsHeld'
  <2>1. UNCHANGED <<commits, tips, origin, dropped, raced>>
    BY <1>22, Zenon DEF Git!Stage
  <2> QED
    BY <2>1, CommitsStay
<1> QED
  BY <1>1, <1>2, <1>3, <1>4, <1>5, <1>6, <1>7, <1>8, <1>9, <1>10, <1>11, <1>12, <1>13, <1>14,
     <1>15, <1>16, <1>17, <1>18, <1>19, <1>20, <1>21, <1>22
     DEF Git!Next, Git!Requests

LEMMA SnapshotStep ==
  ASSUME RepoTypes, WriterTypes, \A s \in Sessions : SnapshotHeld(s), Git!Next, NEW t \in Sessions
  PROVE  SnapshotHeld(t)'
<1> USE RepoAssumption DEF Git!branchVars, Git!turnVars, Git!treeVars, Git!ghosts, Git!KeepsTurns,
        Git!Writers, Git!Request
<1>0. /\ head \in [Git!Writers -> {"off", "working", "staged", "committed", "pushing", "cleaning"}]
      /\ t \in Git!Writers /\ t # Git!Request /\ checkpoint \in [Sessions -> Upto(commits)]
      /\ leftBy \in [Sessions -> Git!Trees]
      /\ tips \in [Git!Branches -> Upto(commits)] /\ branch \in Git!Branches
  BY DEF RepoTypes, WriterTypes
<1>a. ASSUME commits' = commits
      PROVE  /\ Upto(commits) \subseteq Upto(commits')
             /\ \A h \in Upto(commits) : TreeIn(commits', h) = TreeIn(commits, h)
  BY <1>a
<1>b. ASSUME NEW m \in Commits, m.parent \in Upto(commits), commits' = Append(commits, m),
             Len(commits) < MaxCommits
      PROVE  /\ Upto(commits) \subseteq Upto(commits')
             /\ \A h \in Upto(commits) : TreeIn(commits', h) = TreeIn(commits, h)
             /\ TreeIn(commits', Len(commits) + 1) = m.tree /\ Len(commits) + 1 # 0
  BY <1>b, CommitsGrow, HistoryGrows DEF RepoTypes
<1>1. ASSUME NEW s \in Sessions, Git!Snapshot(s)
      PROVE  SnapshotHeld(t)'
  <2>0. commits' = commits
    BY <1>1, Zenon DEF Git!Snapshot
  <2>1. CASE t # s
    <3>1. /\ head'[t] = head[t] /\ checkpoint'[t] = checkpoint[t] /\ leftBy'[t] = leftBy[t]
          /\ t \in mixed => t \in mixed'
          /\ \/ head[t] \notin {"staged", "committed"} \/ t \in mixed'
             \/ index' = index /\ tips'[branch'] = tips[branch]
      BY <1>0, <1>1, <2>1 DEF Git!Snapshot, Git!StageAll, Git!Mix, Git!MetBy, Git!Move
    <3> QED
      BY <1>0, <1>a, <2>0, <3>1, SnapshotStays DEF SnapshotHeld
  <2>2. CASE t = s
    BY <1>0, <1>a, <1>1, <2>0, <2>2 DEF Git!Snapshot, Git!StageAll, Git!Mix, Git!MetBy, Git!Move,
                                        SnapshotHeld, Git!HeadHash, TreeIn
  <2> QED
    BY <2>1, <2>2
<1>2. ASSUME NEW s \in Sessions, Git!SnapshotCommits(s)
      PROVE  SnapshotHeld(t)'
  <2> DEFINE m == [tree |-> index, parent |-> parents[s]]
  <2>1. Git!CommitIndex(s)
    BY <1>2, Zenon DEF Git!SnapshotCommits
  <2>2. /\ m \in Commits /\ m.tree = index /\ m.parent \in Upto(commits)
        /\ commits' = Append(commits, m) /\ Len(commits) < MaxCommits
    BY <2>1, CommitTyped
  <2> HIDE DEF m
  <2>3. CASE t # s
    <3>1. /\ head'[t] = head[t] /\ checkpoint'[t] = checkpoint[t] /\ leftBy'[t] = leftBy[t]
          /\ mixed \subseteq mixed'
          /\ \/ head[t] \notin {"staged", "committed"} \/ t \in mixed'
             \/ index' = index /\ tips'[branch'] = tips[branch]
      BY <1>0, <1>2, <2>3 DEF Git!SnapshotCommits, Git!CommitIndex, Git!Mix, Git!MetBy, Git!Move
    <3> QED
      BY <1>0, <1>b, <2>2, <3>1, SnapshotStays DEF SnapshotHeld
  <2>4. CASE t = s
    <3>1. /\ head[s] = "staged" /\ head'[s] = "committed" /\ mixed \subseteq mixed'
          /\ tips'[branch'] = Len(commits) + 1 /\ leftBy' = leftBy
      BY <1>0, <1>2 DEF Git!SnapshotCommits, Git!CommitIndex, Git!Mix, Git!Move
    <3> QED
      BY <1>0, <1>b, <2>2, <2>4, <3>1 DEF SnapshotHeld
  <2> QED
    BY <2>3, <2>4
<1>3. ASSUME NEW s \in Sessions, Git!StampTurn(s)
      PROVE  SnapshotHeld(t)'
  <2>0. commits' = commits
    BY <1>3, Zenon DEF Git!StampTurn
  <2>1. CASE t # s
    <3>1. /\ head'[t] = head[t] /\ checkpoint'[t] = checkpoint[t] /\ leftBy'[t] = leftBy[t]
          /\ mixed \subseteq mixed'
          /\ \/ head[t] \notin {"staged", "committed"} \/ t \in mixed'
             \/ index' = index /\ tips'[branch'] = tips[branch]
      BY <1>0, <1>3, <2>1 DEF Git!StampTurn, Git!Mix, Git!MetBy, Git!Move
    <3> QED
      BY <1>0, <1>a, <2>0, <3>1, SnapshotStays DEF SnapshotHeld
  <2>2. CASE t = s
    BY <1>0, <1>a, <1>3, <2>0, <2>2 DEF Git!StampTurn, Git!Stamped, Git!Mix, Git!MetBy, Git!Move,
                                        SnapshotHeld, Git!HeadHash, TreeIn
  <2> QED
    BY <2>1, <2>2
<1>4. ASSUME NEW s \in Sessions, Git!EndTurn(s)
      PROVE  SnapshotHeld(t)'
  <2>0. commits' = commits
    BY <1>4, Zenon DEF Git!EndTurn
  <2>1. CASE t # s
    <3>1. /\ head'[t] = head[t] /\ checkpoint'[t] = checkpoint[t] /\ leftBy'[t] = leftBy[t]
          /\ mixed \subseteq mixed'
          /\ \/ head[t] \notin {"staged", "committed"} \/ t \in mixed'
             \/ index' = index /\ tips'[branch'] = tips[branch]
      BY <1>0, <1>4, <2>1 DEF Git!EndTurn, Git!Mix, Git!MetBy, Git!Move
    <3> QED
      BY <1>0, <1>a, <2>0, <3>1, SnapshotStays DEF SnapshotHeld
  <2>2. CASE t = s
    BY <1>0, <1>a, <1>4, <2>0, <2>2 DEF Git!EndTurn, Git!Mix, Git!MetBy, Git!Move, SnapshotHeld,
                                        Git!HeadHash, TreeIn
  <2> QED
    BY <2>1, <2>2
<1>5. ASSUME NEW s \in Sessions, NEW f \in Files, Git!WriteFile(s, f)
      PROVE  SnapshotHeld(t)'
  <2>1. /\ head'[t] = head[t] /\ checkpoint'[t] = checkpoint[t] /\ leftBy'[t] = leftBy[t]
        /\ mixed \subseteq mixed'
        /\ \/ head[t] \notin {"staged", "committed"} \/ t \in mixed'
           \/ index' = index /\ tips'[branch'] = tips[branch]
    BY <1>0, <1>5 DEF Git!WriteFile, Git!Mix, Git!MetBy, Git!Move
  <2>2. commits' = commits
    BY <1>5, Zenon DEF Git!WriteFile
  <2> QED
    BY <1>0, <1>a, <2>1, <2>2, SnapshotStays DEF SnapshotHeld
<1>6. CASE Git!AutoPush
  <2>1. /\ head'[t] = head[t] /\ checkpoint'[t] = checkpoint[t] /\ leftBy'[t] = leftBy[t]
        /\ mixed \subseteq mixed'
        /\ \/ head[t] \notin {"staged", "committed"} \/ t \in mixed'
           \/ index' = index /\ tips'[branch'] = tips[branch]
    BY <1>0, <1>6 DEF Git!AutoPush, Git!Mix, Git!MetBy, Git!Move
  <2>2. commits' = commits
    BY <1>6, Zenon DEF Git!AutoPush
  <2> QED
    BY <1>0, <1>a, <2>1, <2>2, SnapshotStays DEF SnapshotHeld
<1>7. CASE Git!OthersPush
  <2>1. /\ head'[t] = head[t] /\ checkpoint'[t] = checkpoint[t] /\ leftBy'[t] = leftBy[t]
        /\ mixed \subseteq mixed'
        /\ \/ head[t] \notin {"staged", "committed"} \/ t \in mixed'
           \/ index' = index /\ tips'[branch'] = tips[branch]
    BY <1>0, <1>7 DEF Git!OthersPush, Git!Mix, Git!MetBy, Git!Move
  <2> DEFINE m == [tree |-> Git!Nothing, parent |-> origin["main"]]
  <2>3. /\ m \in Commits /\ m.parent \in Upto(commits)
        /\ commits' = Append(commits, m) /\ Len(commits) < MaxCommits
    BY <1>7, OthersTyped
  <2> HIDE DEF m
  <2> QED
    BY <1>0, <1>b, <2>1, <2>3, SnapshotStays DEF SnapshotHeld
<1>8. CASE Git!InitRepo
  <2>1. /\ head'[t] = head[t] /\ checkpoint'[t] = checkpoint[t] /\ leftBy'[t] = leftBy[t]
        /\ mixed \subseteq mixed'
        /\ \/ head[t] \notin {"staged", "committed"} \/ t \in mixed'
           \/ index' = index /\ tips'[branch'] = tips[branch]
    BY <1>0, <1>8 DEF Git!InitRepo, Git!StageAll, Git!Mix, Git!MetBy, Git!Move
  <2>2. commits' = commits
    BY <1>8, Zenon DEF Git!InitRepo
  <2> QED
    BY <1>0, <1>a, <2>1, <2>2, SnapshotStays DEF SnapshotHeld
<1>9. CASE Git!InitAndPush
  <2>1. /\ head'[t] = head[t] /\ checkpoint'[t] = checkpoint[t] /\ leftBy'[t] = leftBy[t]
        /\ mixed \subseteq mixed'
        /\ \/ head[t] \notin {"staged", "committed"} \/ t \in mixed'
           \/ index' = index /\ tips'[branch'] = tips[branch]
    BY <1>0, <1>9 DEF Git!InitAndPush, Git!StageAll, Git!Mix, Git!MetBy, Git!Move
  <2>2. commits' = commits
    BY <1>9, Zenon DEF Git!InitAndPush
  <2> QED
    BY <1>0, <1>a, <2>1, <2>2, SnapshotStays DEF SnapshotHeld
<1>10. CASE Git!CommitRequest
  <2>1. /\ head'[t] = head[t] /\ checkpoint'[t] = checkpoint[t] /\ leftBy'[t] = leftBy[t]
        /\ mixed \subseteq mixed'
        /\ \/ head[t] \notin {"staged", "committed"} \/ t \in mixed'
           \/ index' = index /\ tips'[branch'] = tips[branch]
    BY <1>0, <1>10 DEF Git!CommitRequest, Git!StageAll, Git!Mix, Git!MetBy, Git!Move
  <2>2. commits' = commits
    BY <1>10, Zenon DEF Git!CommitRequest
  <2> QED
    BY <1>0, <1>a, <2>1, <2>2, SnapshotStays DEF SnapshotHeld
<1>11. CASE Git!RequestCommits
  <2>1. /\ head'[t] = head[t] /\ checkpoint'[t] = checkpoint[t] /\ leftBy'[t] = leftBy[t]
        /\ mixed \subseteq mixed'
        /\ \/ head[t] \notin {"staged", "committed"} \/ t \in mixed'
           \/ index' = index /\ tips'[branch'] = tips[branch]
    BY <1>0, <1>11 DEF Git!RequestCommits, Git!CommitIndex, Git!Mix, Git!MetBy, Git!Move
  <2>2. Git!CommitIndex(Git!Request)
    BY <1>11, Zenon DEF Git!RequestCommits
  <2> DEFINE m == [tree |-> index, parent |-> parents[Git!Request]]
  <2>3. /\ m \in Commits /\ m.parent \in Upto(commits)
        /\ commits' = Append(commits, m) /\ Len(commits) < MaxCommits
    BY <1>11, <2>2, CommitTyped
  <2> HIDE DEF m
  <2> QED
    BY <1>0, <1>b, <2>1, <2>3, SnapshotStays DEF SnapshotHeld
<1>12. CASE Git!RequestEnds
  <2>1. /\ head'[t] = head[t] /\ checkpoint'[t] = checkpoint[t] /\ leftBy'[t] = leftBy[t]
        /\ mixed \subseteq mixed'
        /\ \/ head[t] \notin {"staged", "committed"} \/ t \in mixed'
           \/ index' = index /\ tips'[branch'] = tips[branch]
    BY <1>0, <1>12 DEF Git!RequestEnds, Git!Mix, Git!MetBy, Git!Move
  <2>2. commits' = commits
    BY <1>12, Zenon DEF Git!RequestEnds
  <2> QED
    BY <1>0, <1>a, <2>1, <2>2, SnapshotStays DEF SnapshotHeld
<1>13. CASE Git!Link
  <2>1. /\ head'[t] = head[t] /\ checkpoint'[t] = checkpoint[t] /\ leftBy'[t] = leftBy[t]
        /\ mixed \subseteq mixed'
        /\ \/ head[t] \notin {"staged", "committed"} \/ t \in mixed'
           \/ index' = index /\ tips'[branch'] = tips[branch]
    BY <1>0, <1>13 DEF Git!Link, Git!Mix, Git!MetBy, Git!Move
  <2>2. commits' = commits
    BY <1>13, Zenon DEF Git!Link
  <2> QED
    BY <1>0, <1>a, <2>1, <2>2, SnapshotStays DEF SnapshotHeld
<1>14. CASE Git!CreateBranch
  <2>1. /\ head'[t] = head[t] /\ checkpoint'[t] = checkpoint[t] /\ leftBy'[t] = leftBy[t]
        /\ mixed \subseteq mixed'
        /\ \/ head[t] \notin {"staged", "committed"} \/ t \in mixed'
           \/ index' = index /\ tips'[branch'] = tips[branch]
    BY <1>0, <1>14 DEF Git!CreateBranch, Git!Mix, Git!MetBy, Git!Move
  <2>2. commits' = commits
    BY <1>14, Zenon DEF Git!CreateBranch
  <2> QED
    BY <1>0, <1>a, <2>1, <2>2, SnapshotStays DEF SnapshotHeld
<1>15. CASE Git!Pull
  <2>1. /\ head'[t] = head[t] /\ checkpoint'[t] = checkpoint[t] /\ leftBy'[t] = leftBy[t]
        /\ mixed \subseteq mixed'
        /\ \/ head[t] \notin {"staged", "committed"} \/ t \in mixed'
           \/ index' = index /\ tips'[branch'] = tips[branch]
    BY <1>0, <1>15 DEF Git!Pull, Git!Mix, Git!MetBy, Git!Move
  <2>2. commits' = commits
    BY <1>15, Zenon DEF Git!Pull
  <2> QED
    BY <1>0, <1>a, <2>1, <2>2, SnapshotStays DEF SnapshotHeld
<1>16. CASE Git!DiscardAll
  <2>1. /\ head'[t] = head[t] /\ checkpoint'[t] = checkpoint[t] /\ leftBy'[t] = leftBy[t]
        /\ mixed \subseteq mixed'
        /\ \/ head[t] \notin {"staged", "committed"} \/ t \in mixed'
           \/ index' = index /\ tips'[branch'] = tips[branch]
    BY <1>0, <1>16 DEF Git!DiscardAll, Git!Mix, Git!MetBy, Git!Move
  <2>2. commits' = commits
    BY <1>16, Zenon DEF Git!DiscardAll
  <2> QED
    BY <1>0, <1>a, <2>1, <2>2, SnapshotStays DEF SnapshotHeld
<1>17. CASE Git!DiscardResets
  <2>1. /\ head'[t] = head[t] /\ checkpoint'[t] = checkpoint[t] /\ leftBy'[t] = leftBy[t]
        /\ mixed \subseteq mixed'
        /\ \/ head[t] \notin {"staged", "committed"} \/ t \in mixed'
           \/ index' = index /\ tips'[branch'] = tips[branch]
    BY <1>0, <1>17 DEF Git!DiscardResets, Git!HardReset, Git!Mix, Git!MetBy, Git!Move
  <2>2. commits' = commits
    BY <1>17, Zenon DEF Git!DiscardResets
  <2> QED
    BY <1>0, <1>a, <2>1, <2>2, SnapshotStays DEF SnapshotHeld
<1>18. CASE Git!DiscardCleans
  <2>1. /\ head'[t] = head[t] /\ checkpoint'[t] = checkpoint[t] /\ leftBy'[t] = leftBy[t]
        /\ mixed \subseteq mixed'
        /\ \/ head[t] \notin {"staged", "committed"} \/ t \in mixed'
           \/ index' = index /\ tips'[branch'] = tips[branch]
    BY <1>0, <1>18 DEF Git!DiscardCleans, Git!Mix, Git!MetBy, Git!Move
  <2>2. commits' = commits
    BY <1>18, Zenon DEF Git!DiscardCleans
  <2> QED
    BY <1>0, <1>a, <2>1, <2>2, SnapshotStays DEF SnapshotHeld
<1>19. ASSUME NEW b \in Git!Branches, Git!CheckoutBranch(b)
       PROVE  SnapshotHeld(t)'
  <2>1. /\ head'[t] = head[t] /\ checkpoint'[t] = checkpoint[t] /\ leftBy'[t] = leftBy[t]
        /\ mixed \subseteq mixed'
        /\ \/ head[t] \notin {"staged", "committed"} \/ t \in mixed'
           \/ index' = index /\ tips'[branch'] = tips[branch]
    BY <1>0, <1>19 DEF Git!CheckoutBranch, Git!Mix, Git!MetBy, Git!Move
  <2>2. commits' = commits
    BY <1>19, Zenon DEF Git!CheckoutBranch
  <2> QED
    BY <1>0, <1>a, <2>1, <2>2, SnapshotStays DEF SnapshotHeld
<1>20. ASSUME NEW h \in 1 .. Len(commits), Git!RevertTo(h)
       PROVE  SnapshotHeld(t)'
  <2>1. /\ head'[t] = head[t] /\ checkpoint'[t] = checkpoint[t] /\ leftBy'[t] = leftBy[t]
        /\ mixed \subseteq mixed'
        /\ \/ head[t] \notin {"staged", "committed"} \/ t \in mixed'
           \/ index' = index /\ tips'[branch'] = tips[branch]
    BY <1>0, <1>20 DEF Git!RevertTo, Git!HardReset, Git!Mix, Git!MetBy, Git!Move
  <2>2. commits' = commits
    BY <1>20, Zenon DEF Git!RevertTo
  <2> QED
    BY <1>0, <1>a, <2>1, <2>2, SnapshotStays DEF SnapshotHeld
<1>21. ASSUME NEW f \in Files, Git!DiscardFile(f)
       PROVE  SnapshotHeld(t)'
  <2>1. /\ head'[t] = head[t] /\ checkpoint'[t] = checkpoint[t] /\ leftBy'[t] = leftBy[t]
        /\ mixed \subseteq mixed'
        /\ \/ head[t] \notin {"staged", "committed"} \/ t \in mixed'
           \/ index' = index /\ tips'[branch'] = tips[branch]
    BY <1>0, <1>21 DEF Git!DiscardFile, Git!Mix, Git!MetBy, Git!Move
  <2>2. commits' = commits
    BY <1>21, Zenon DEF Git!DiscardFile
  <2> QED
    BY <1>0, <1>a, <2>1, <2>2, SnapshotStays DEF SnapshotHeld
<1>22. ASSUME NEW fs \in SUBSET Files, Git!Stage(fs)
       PROVE  SnapshotHeld(t)'
  <2>1. /\ head'[t] = head[t] /\ checkpoint'[t] = checkpoint[t] /\ leftBy'[t] = leftBy[t]
        /\ mixed \subseteq mixed'
        /\ \/ head[t] \notin {"staged", "committed"} \/ t \in mixed'
           \/ index' = index /\ tips'[branch'] = tips[branch]
    BY <1>0, <1>22 DEF Git!Stage, Git!Mix, Git!MetBy, Git!Move
  <2>2. commits' = commits
    BY <1>22, Zenon DEF Git!Stage
  <2> QED
    BY <1>0, <1>a, <2>1, <2>2, SnapshotStays DEF SnapshotHeld
<1> QED
  BY <1>1, <1>2, <1>3, <1>4, <1>5, <1>6, <1>7, <1>8, <1>9, <1>10, <1>11, <1>12, <1>13, <1>14,
     <1>15, <1>16, <1>17, <1>18, <1>19, <1>20, <1>21, <1>22
     DEF Git!Next, Git!Requests
LEMMA RepoStep ==
  ASSUME RepoIInv, Git!Next \/ UNCHANGED gitVars
  PROVE  RepoIInv'
<1>1. CASE Git!Next
  BY <1>1, RepoTypesStep, WriterTypesStep, RepoFlagsStep, CommitsStep, SnapshotStep DEF RepoIInv
<1>2. CASE UNCHANGED gitVars
  <2> USE <1>2 DEF RepoIInv, gitVars
  <2>1. RepoTypes'
    BY DEF RepoTypes
  <2>2. WriterTypes'
    BY DEF WriterTypes
  <2>3. RepoFlags'
    BY Zenon DEF RepoFlags
  <2>4. CommitsHeld'
    BY CommitsStay
  <2>5. \A s \in Sessions : SnapshotHeld(s)'
    BY DEF SnapshotHeld
  <2> QED
    BY <2>1, <2>2, <2>3, <2>4, <2>5
<1> QED
  BY <1>1, <1>2

LEMMA RepoAsHeld ==
  ASSUME RepoIInv
  PROVE  Git!TypeOK /\ Git!CheckpointHolds /\ Git!CommitsKept
<1> USE RepoAssumption DEF RepoIInv
<1>1. Len(commits) \in Nat /\ Upto(commits) \subseteq Git!Hashes
  BY DEF RepoTypes, Upto, Git!Hashes
<1>2. Git!TypeOK
  BY <1>1, Zenon DEF Git!TypeOK, RepoTypes, WriterTypes, RepoFlags, Commits, Upto
<1>3. Git!CheckpointHolds
  BY HistoryIs DEF Git!CheckpointHolds, SnapshotHeld
<1>4. Git!CommitsKept
  BY HistoryIs DEF Git!CommitsKept, CommitsHeld, Reached
<1> QED
  BY <1>2, <1>3, <1>4

-----------------------------------------------------------------------------
(* CommitIfRepo, HeadCommit, RevertTo, PushBranches: a turn's checkpoint holds the files
   the turn left unless somebody came between its staging and its stamp, and a commit
   leaves every branch only by a revert, a link or a race for a branch: for any sessions,
   files and bounds. *)
THEOREM RepoIsHeld == PartsSpec => []RepoHolds
<1>1. PartsInit => RepoIInv
  BY RepoInit DEF PartsInit
<1>2. RepoIInv /\ [PartsNext]_vars => RepoIInv'
  <2> SUFFICES ASSUME RepoIInv, [PartsNext]_vars
               PROVE  RepoIInv'
    OBVIOUS
  <2>1. CASE InGit(Git!Next)
    BY <2>1, RepoStep DEF InGit
  <2>2. CASE UNCHANGED gitVars
    BY <2>2, RepoStep
  <2> QED
    BY <2>1, <2>2, Zenon
       DEF PartsNext, InServers, InEndpoint, InPreviews, InShells, InTools, InExtensions,
           InSkills, vars
<1>3. RepoIInv => RepoHolds
  BY RepoAsHeld DEF RepoHolds
<1> QED
  BY <1>1, <1>2, <1>3, PTL DEF PartsSpec
=============================================================================
