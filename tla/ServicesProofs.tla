---------------------------- MODULE ServicesProofs ----------------------------
(***************************************************************************)
(* Proofs about a turn of the built-in loop and what it waits for: the     *)
(* questions to the user, the detached commands and the model's answers,   *)
(* for any questions, texts, responders, jobs and sessions, and any number *)
(* of retries, pieces, model calls, resumes and joined messages.           *)
(* The theorems are about the specification the run checks, of which each  *)
(* part takes its own steps.                                               *)
(***************************************************************************)
EXTENDS MCServices, FiniteSetTheorems, SequenceTheorems, WellFoundedInduction, TLAPS

-----------------------------------------------------------------------------
(* A question that was asked asks something, so what the cache of answers gets
   is a text. *)
AskedHasText == \A q \in Asks : step[q] # "new" => text[q] \in Texts

AskIInv == Questions!TypeOK /\ AskedHasText /\ Questions!NoStaleCard

LEMMA AskInit == Questions!Init => AskIInv
<1> SUFFICES ASSUME Questions!Init
             PROVE  AskIInv
  OBVIOUS
<1>1. asksTurn \in BOOLEAN /\ asksStop \in BOOLEAN
  BY Zenon DEF Questions!Init
<1>2. Questions!TypeOK
  BY <1>1 DEF Questions!Init, Questions!TypeOK, Questions!None
<1>3. AskedHasText
  BY DEF Questions!Init, AskedHasText
<1>4. Questions!NoStaleCard
  BY DEF Questions!Init, Questions!NoStaleCard
<1> QED
  BY <1>2, <1>3, <1>4 DEF AskIInv

LEMMA AskStep == AskIInv /\ [Questions!Next]_asksVars => AskIInv'
<1> SUFFICES ASSUME AskIInv, [Questions!Next]_asksVars
             PROVE  AskIInv'
  OBVIOUS
<1> USE DEF AskIInv, Questions!TypeOK, AskedHasText, Questions!NoStaleCard, Questions!None
<1>1. CASE Questions!TurnBegins
  BY <1>1 DEF Questions!TurnBegins, Questions!SupersedeRow
<1>2. CASE Questions!TurnEnds
  BY <1>2 DEF Questions!TurnEnds
<1>3. CASE Questions!StopTurn
  BY <1>3 DEF Questions!StopTurn
<1>4. CASE Questions!Restart
  <2>1. asksTurn' \in BOOLEAN /\ asksStop' \in BOOLEAN
    BY <1>4, Zenon DEF Questions!Restart
  <2>2. Questions!TypeOK'
    BY <1>4, <2>1 DEF Questions!Restart
  <2>3. AskedHasText' /\ Questions!NoStaleCard'
    BY <1>4 DEF Questions!Restart
  <2> QED
    BY <2>2, <2>3
<1>5. ASSUME NEW q \in Asks, NEW t \in Texts, Questions!AskUser(q, t)
      PROVE  AskIInv'
  BY <1>5 DEF Questions!AskUser
<1>6. ASSUME NEW q \in Asks, Questions!Register(q)
      PROVE  AskIInv'
  BY <1>6 DEF Questions!Register
<1>7. ASSUME NEW q \in Asks, Questions!Select(q)
      PROVE  AskIInv'
  BY <1>7 DEF Questions!Select, Questions!Outcomes
<1>8. ASSUME NEW q \in Asks, Questions!Return(q)
      PROVE  AskIInv'
  BY <1>8 DEF Questions!Return, Questions!ClearRow
<1>9. ASSUME NEW h \in Responders, Questions!Resolve(h)
      PROVE  AskIInv'
  BY <1>9 DEF Questions!Resolve, Questions!DropEntry
<1>10. ASSUME NEW h \in Responders, NEW q \in Asks, Questions!Respond(h, q)
       PROVE  AskIInv'
  BY <1>10 DEF Questions!Respond
<1>11. CASE UNCHANGED asksVars
  BY <1>11 DEF asksVars
<1> QED
  BY <1>1, <1>2, <1>3, <1>4, <1>5, <1>6, <1>7, <1>8, <1>9, <1>10, <1>11 DEF Questions!Next

(* turnAsk: while a turn runs, the card a page shows is of the question that waits;
   none is left of a question that was answered, timed out or died with its run. *)
THEOREM CardIsFresh == PartsSpec => []NoStaleCard
<1>1. PartsInit => AskIInv
  BY AskInit DEF PartsInit
<1>2. AskIInv /\ [PartsNext]_vars => AskIInv'
  <2> SUFFICES ASSUME AskIInv, [PartsNext]_vars
               PROVE  AskIInv'
    OBVIOUS
  <2>1. CASE InAsks(Questions!Next)
    BY <2>1, AskStep DEF InAsks
  <2>2. CASE UNCHANGED asksVars
    BY <2>2, AskStep
  <2> QED
    BY <2>1, <2>2 DEF PartsNext, InJobs, InModel, InLoop, vars, asksVars
<1>3. AskIInv => NoStaleCard
  BY DEF AskIInv, NoStaleCard
<1> QED
  BY <1>1, <1>2, <1>3, PTL DEF PartsSpec
-----------------------------------------------------------------------------
(* While the server lives, a command that runs is one its goroutine waits for, and
   in the map, or Start holds it and is about to list it. *)
UpWaits == alive => \A j \in up : phase[j] = "started" \/ (j \in listed /\ phase[j] = "waiting")

JobsIInv == Detached!TypeOK /\ UpWaits

LEMMA JobsInit == Detached!Init => JobsIInv
BY DEF JobsIInv, Detached!Init, Detached!TypeOK, UpWaits, Detached!Nobody

LEMMA JobsStep == JobsIInv /\ [Detached!Next]_jobsVars => JobsIInv'
<1> SUFFICES ASSUME JobsIInv, [Detached!Next]_jobsVars
             PROVE  JobsIInv'
  OBVIOUS
<1> USE DEF JobsIInv, Detached!TypeOK, UpWaits, Detached!Nobody, Detached!jobVars
<1>1. ASSUME NEW j \in Jobs, Detached!Exits(j)
      PROVE  JobsIInv'
  BY <1>1 DEF Detached!Exits
<1>2. ASSUME NEW j \in Jobs, Detached!WaitReturns(j)
      PROVE  JobsIInv'
  BY <1>2 DEF Detached!WaitReturns
<1>3. ASSUME NEW j \in Jobs, Detached!TimesOut(j)
      PROVE  JobsIInv'
  BY <1>3 DEF Detached!TimesOut
<1>4. ASSUME NEW j \in Jobs, Detached!CloseDone(j)
      PROVE  JobsIInv'
  BY <1>4 DEF Detached!CloseDone
<1>5. ASSUME NEW j \in Jobs, Detached!Notify(j)
      PROVE  JobsIInv'
  BY <1>5 DEF Detached!Notify, Detached!Status
<1>6. ASSUME NEW j \in Jobs, NEW s \in Sessions, Detached!Start(j, s)
      PROVE  JobsIInv'
  BY <1>6 DEF Detached!Start
<1>7. ASSUME NEW j \in Jobs, NEW s \in Sessions, Detached!CancelFinds(s, j)
      PROVE  JobsIInv'
  BY <1>7 DEF Detached!CancelFinds, Detached!Free
<1>8. ASSUME NEW s \in Sessions, Detached!StopRun(s) \/ Detached!TurnEnds(s)
      PROVE  JobsIInv'
  BY <1>8 DEF Detached!StopRun, Detached!TurnEnds
<1>9. ASSUME NEW s \in Sessions, Detached!CancelSession(s)
      PROVE  JobsIInv'
  BY <1>9 DEF Detached!CancelSession, Detached!Free, Detached!KillGroups, Detached!RunningOf
<1>10. ASSUME NEW s \in Sessions, Detached!Poll(s)
       PROVE  JobsIInv'
  BY <1>10 DEF Detached!Poll, Detached!Free, Detached!FinishedOf, Detached!Done
<1>11. CASE Detached!CancelMarks
  BY <1>11 DEF Detached!CancelMarks, Detached!KillGroups
<1>12. CASE Detached!KillSurvivors
  BY <1>12 DEF Detached!KillSurvivors
<1>13. CASE Detached!Shutdown
  BY <1>13 DEF Detached!Shutdown, Detached!Free
<1>14. ASSUME NEW j \in Jobs, Detached!Lists(j)
       PROVE  JobsIInv'
  BY <1>14 DEF Detached!Lists, Detached!Free
<1>15. ASSUME NEW j \in Jobs, Detached!Detaches(j)
       PROVE  JobsIInv'
  BY <1>15 DEF Detached!Detaches
<1>16. ASSUME NEW j \in Jobs, Detached!LetsGo(j)
       PROVE  JobsIInv'
  BY <1>16 DEF Detached!LetsGo
<1>17. CASE UNCHANGED jobsVars
  BY <1>17 DEF jobsVars
<1> QED
  BY <1>1, <1>2, <1>3, <1>4, <1>5, <1>6, <1>7, <1>8, <1>9, <1>10, <1>11, <1>12, <1>13, <1>14,
     <1>15, <1>16, <1>17
  DEF Detached!Next

(* BackgroundManager: while its server lives a command that runs can be found by a
   cancel, a stop and the shutdown, except between its start and the insert in m.jobs,
   and what a poll handed out has ended. *)
THEOREM RunningCommandsAreListed == PartsSpec => []UpIsListed
<1>1. PartsInit => JobsIInv
  BY JobsInit DEF PartsInit
<1>2. JobsIInv /\ [PartsNext]_vars => JobsIInv'
  <2> SUFFICES ASSUME JobsIInv, [PartsNext]_vars
               PROVE  JobsIInv'
    OBVIOUS
  <2>1. CASE InJobs(Detached!Next)
    BY <2>1, JobsStep DEF InJobs
  <2>2. CASE UNCHANGED jobsVars
    BY <2>2, JobsStep
  <2> QED
    BY <2>1, <2>2 DEF PartsNext, InAsks, InModel, InLoop, vars, jobsVars
<1>3. JobsIInv => UpIsListed
  BY DEF JobsIInv, UpWaits, UpIsListed, Detached!TypeOK, Detached!UpIsListed, Detached!Done
<1> QED
  BY <1>1, <1>2, <1>3, PTL DEF PartsSpec
-----------------------------------------------------------------------------
(* The first n elements of s, and how many of them are of a kind. *)
Begin(s, n) == SubSeq(s, 1, n)
Places(s, kind, n) == {k \in 1 .. n : s[k] = kind}

LEMMA SameCardinality == ASSUME NEW S PROVE Model!Cardinality(S) = Cardinality(S)
BY DEF Model!Cardinality, Cardinality

LEMMA BeginIs ==
  ASSUME NEW s \in Seq(Model!Pieces), NEW n \in 0 .. Len(s)
  PROVE  /\ Begin(s, n) \in Seq(Model!Pieces) /\ Len(Begin(s, n)) = n
         /\ DOMAIN Begin(s, n) = 1 .. n
         /\ \A k \in 1 .. n : Begin(s, n)[k] = s[k]
<1> DEFINE P == Model!Pieces
<1>1. s \in Seq(P) /\ n \in 0 .. Len(s)
  OBVIOUS
<1> HIDE DEF P
<1> QED
  <2>1. /\ SubSeq(s, 1, n) \in Seq(P) /\ Len(SubSeq(s, 1, n)) = n
        /\ DOMAIN SubSeq(s, 1, n) = 1 .. n
        /\ \A k \in 1 .. n : SubSeq(s, 1, n)[k] = s[k]
    BY <1>1
  <2> QED
    BY <2>1 DEF Begin, P

LEMMA PlacesCounted ==
  ASSUME NEW s, NEW kind, NEW n \in Nat
  PROVE  IsFiniteSet(Places(s, kind, n)) /\ Cardinality(Places(s, kind, n)) \in Nat
<1>1. IsFiniteSet(1 .. n)
  BY FS_Interval
<1>2. IsFiniteSet(Places(s, kind, n))
  BY <1>1, FS_Subset DEF Places
<1> QED
  BY <1>2, FS_CardinalityType

(* The pieces of a kind among the first n are as many as their places. *)
LEMMA OnlyIsCount ==
  ASSUME NEW s \in Seq(Model!Pieces), NEW kind, NEW n \in 0 .. Len(s)
  PROVE  Model!Only(kind, Begin(s, n)) = [i \in 1 .. Cardinality(Places(s, kind, n)) |-> kind]
<1>1. {k \in DOMAIN Begin(s, n) : Begin(s, n)[k] = kind} = Places(s, kind, n)
  BY BeginIs DEF Places
<1> QED
  BY <1>1, SameCardinality DEF Model!Only

LEMMA OnlyOfNone ==
  ASSUME NEW s \in Seq(Model!Pieces), NEW kind
  PROVE  Model!Only(kind, Begin(s, 0)) = <<>>
<1>1. Places(s, kind, 0) = {}
  BY DEF Places
<1>2. Cardinality(Places(s, kind, 0)) = 0
  BY <1>1, FS_EmptySet
<1>3. 0 \in 0 .. Len(s)
  OBVIOUS
<1>4. Model!Only(kind, Begin(s, 0)) = [i \in 1 .. 0 |-> kind]
  BY <1>2, <1>3, OnlyIsCount
<1> QED
  BY <1>4

(* One piece more is appended when it is of the kind. *)
LEMMA OnlyOfNext ==
  ASSUME NEW s \in Seq(Model!Pieces), NEW kind, NEW n \in Nat, n < Len(s)
  PROVE  Model!Only(kind, Begin(s, n + 1)) =
           IF s[n + 1] = kind THEN Append(Model!Only(kind, Begin(s, n)), kind)
                              ELSE Model!Only(kind, Begin(s, n))
<1> DEFINE c == Cardinality(Places(s, kind, n))
           d == Cardinality(Places(s, kind, n + 1))
<1>0. Len(s) \in Nat /\ n \in 0 .. Len(s) /\ n + 1 \in 0 .. Len(s)
  OBVIOUS
<1>1. Model!Only(kind, Begin(s, n)) = [i \in 1 .. c |-> kind]
  BY <1>0, OnlyIsCount
<1>2. Model!Only(kind, Begin(s, n + 1)) = [i \in 1 .. d |-> kind]
  BY <1>0, OnlyIsCount
<1>3. IsFiniteSet(Places(s, kind, n)) /\ c \in Nat
  BY PlacesCounted
<1>4. CASE s[n + 1] = kind
  <2>1. Places(s, kind, n + 1) = Places(s, kind, n) \cup {n + 1} /\ n + 1 \notin Places(s, kind, n)
    BY <1>4 DEF Places
  <2>2. d = c + 1
    BY <2>1, <1>3, FS_AddElement
  <2> HIDE DEF c, d
  <2>3. [i \in 1 .. c + 1 |-> kind] = Append([i \in 1 .. c |-> kind], kind)
    BY <1>3
  <2> QED
    BY <1>1, <1>2, <1>4, <2>2, <2>3
<1>5. CASE s[n + 1] # kind
  <2>1. Places(s, kind, n + 1) = Places(s, kind, n)
    BY <1>5 DEF Places
  <2> QED
    BY <1>1, <1>2, <1>5, <2>1
<1> QED
  BY <1>4, <1>5

LEMMA BeginAll ==
  ASSUME NEW s \in Seq(Model!Pieces)
  PROVE  Begin(s, Len(s)) = s
<1> DEFINE P == Model!Pieces
<1>1. s \in Seq(P)
  OBVIOUS
<1> HIDE DEF P
<1> QED
  BY <1>1 DEF Begin

(* Those of a beginning are a beginning of those of the whole. *)
LEMMA OnlyOfPrefix ==
  ASSUME NEW s \in Seq(Model!Pieces), NEW kind, NEW n \in 0 .. Len(s)
  PROVE  Model!IsPrefix(Model!Only(kind, Begin(s, n)), Model!Only(kind, s))
<1> DEFINE c == Cardinality(Places(s, kind, n))
           d == Cardinality(Places(s, kind, Len(s)))
<1>0. Len(s) \in Nat /\ Len(s) \in 0 .. Len(s)
  OBVIOUS
<1>1. Model!Only(kind, Begin(s, n)) = [i \in 1 .. c |-> kind]
  BY OnlyIsCount
<1>2. Model!Only(kind, s) = [i \in 1 .. d |-> kind]
  BY <1>0, OnlyIsCount, BeginAll
<1>3. c \in Nat /\ d \in Nat /\ IsFiniteSet(Places(s, kind, Len(s)))
  BY <1>0, PlacesCounted
<1>4. Places(s, kind, n) \subseteq Places(s, kind, Len(s))
  BY <1>0 DEF Places
<1>5. c <= d
  BY <1>3, <1>4, FS_Subset
<1> HIDE DEF c, d
<1>6. /\ Len([i \in 1 .. c |-> kind]) = c /\ Len([i \in 1 .. d |-> kind]) = d
      /\ SubSeq([i \in 1 .. c |-> kind], 1, c) = SubSeq([i \in 1 .. d |-> kind], 1, c)
  BY <1>3, <1>5
<1> QED
  BY <1>1, <1>2, <1>5, <1>6 DEF Model!IsPrefix

(* What came before is not changed by a piece that arrives. *)
LEMMA BeginOfAppend ==
  ASSUME NEW s \in Seq(Model!Pieces), NEW p \in Model!Pieces, NEW n \in 0 .. Len(s)
  PROVE  /\ Begin(Append(s, p), n) = Begin(s, n)
         /\ Append(s, p) \in Seq(Model!Pieces) /\ Len(Append(s, p)) = Len(s) + 1
         /\ \A k \in 1 .. n : Append(s, p)[k] = s[k]
<1> DEFINE P == Model!Pieces
<1>1. s \in Seq(P) /\ p \in P
  OBVIOUS
<1> HIDE DEF P
<1>2. SubSeq(Append(s, p), 1, n) = SubSeq(s, 1, n)
  BY <1>1
<1>3. Append(s, p) \in Seq(P) /\ Len(Append(s, p)) = Len(s) + 1 /\ \A k \in 1 .. n : Append(s, p)[k] = s[k]
  BY <1>1
<1> QED
  BY <1>2, <1>3 DEF Begin, P
-----------------------------------------------------------------------------
(* Until a request is answered there is nothing of a response. *)
Asking ==
  at \in {"post", "backoff"} =>
    /\ producer = "none" /\ sent = <<>> /\ taken = 0 /\ shown = <<>> /\ calls = <<>>
    /\ ~ stopped /\ ~ bodyClosed /\ ~ gatewayError

(* The requests made are the attempts and the fallbacks. *)
Counted ==
  /\ posts \in Nat
  /\ at = "post" => posts + 1 = attempt + Cardinality(refused)
  /\ at = "backoff" => posts = attempt + Cardinality(refused)
  /\ at \in {"post", "backoff"} => attempt <= chatRetries
  /\ at \in {"scan", "returned"} => posts <= chatRetries + Cardinality(refused)

(* While the body is scanned its reader runs; a call that returned left no body open
   behind it, so what it has read is final. *)
Scanning ==
  /\ at = "scan" =>
       producer \in {"read", "send"} /\ calls = <<>> /\ ~ stopped /\ ~ bodyClosed
  /\ at = "returned" => bodyClosed \/ producer = "none"
  /\ result = "none" <=> at # "returned"

(* What was shown is what was read, but for the chunk that is held out. *)
ShownIsTaken ==
  at = "scan" =>
    /\ producer = "read" => shown = Model!TextsIn(Begin(sent, taken))
    /\ producer = "send" /\ held \in Model!Pieces =>
         taken > 0 /\ held = sent[taken] /\ shown = Model!TextsIn(Begin(sent, taken - 1))
    /\ producer = "send" /\ held \notin Model!Pieces =>
         held \in {"eof", "drop"} /\ shown = Model!TextsIn(Begin(sent, taken))

ShownIsPart == \E n \in 0 .. Len(sent) : shown = Model!TextsIn(Begin(sent, n))

WholeIfOk ==
  result = "ok" =>
    /\ shown = Model!TextsIn(Begin(sent, taken)) /\ calls = Model!CallsIn(Begin(sent, taken))

CallTypeOK ==
  Model!TypeOK /\ Len(sent) <= MaxPieces /\ taken <= Len(sent) /\ gatewayError \in BOOLEAN

CallIInv ==
  /\ CallTypeOK /\ Asking /\ Counted /\ Scanning /\ ShownIsTaken /\ ShownIsPart /\ WholeIfOk
  /\ Model!NothingInvented

LEMMA OptionsFinite ==
  ASSUME NEW S \in SUBSET Model!Options
  PROVE  IsFiniteSet(S) /\ Cardinality(S) \in Nat
<1>1. IsFiniteSet({"max_tokens"}) /\ IsFiniteSet({"max_tokens"} \cup {"stream_options"})
  BY FS_Singleton, FS_AddElement
<1>2. {"max_tokens"} \cup {"stream_options"} = Model!Options
  BY DEF Model!Options
<1> QED
  BY <1>1, <1>2, FS_Subset, FS_CardinalityType

LEMMA CallInit == Model!Init => CallIInv
<1> SUFFICES ASSUME Model!Init
             PROVE  CallIInv
  OBVIOUS
<1> USE ServicesAssumption
<1>1. sent \in Seq(Model!Pieces) /\ Len(sent) = 0
  BY DEF Model!Init
<1>2. CallTypeOK
  <2>1. /\ sent \in Seq(Model!Pieces) /\ Len(sent) <= MaxPieces /\ taken \in 0 .. MaxPieces
        /\ attempt \in 1 .. chatRetries + 1 /\ taken <= Len(sent)
    BY <1>1 DEF Model!Init
  <2> QED
  BY <2>1 DEF Model!Init, CallTypeOK, Model!TypeOK, Model!NoChunk
<1>3. Asking /\ Scanning /\ ShownIsTaken /\ WholeIfOk /\ Model!NothingInvented
  BY DEF Model!Init, Asking, Scanning, ShownIsTaken, WholeIfOk, Model!NothingInvented
<1>4. Counted
  BY FS_EmptySet DEF Model!Init, Counted
<1>5. ShownIsPart
  <2>1. shown = Model!TextsIn(Begin(sent, 0))
    BY <1>1, OnlyOfNone DEF Model!Init, Model!TextsIn
  <2> QED
    BY <1>1, <2>1 DEF ShownIsPart
<1> QED
  BY <1>2, <1>3, <1>4, <1>5 DEF CallIInv

(* The steps of the requests. *)
LEMMA AskedStep ==
  ASSUME CallIInv, Model!Asked \/ Model!WaitBackoff \/ Model!Cancelled
  PROVE  CallIInv'
<1> USE ServicesAssumption
<1> USE DEF Model!postVars, Model!wireVars, Model!readVars, Model!resVars, Model!Return
<1>0. /\ at \in {"post", "backoff"}
      /\ UNCHANGED <<sent, ended, held, taken, stopped, bodyClosed, shown, calls, gatewayError>>
  BY Zenon DEF Model!Asked, Model!Accepted, Model!FallsBack, Model!Retries, Model!Refused,
         Model!WaitBackoff, Model!Cancelled
<1>1. /\ producer = "none" /\ result = "none" /\ attempt \in 1 .. chatRetries
      /\ refused \subseteq Model!Options
  BY <1>0 DEF CallIInv, CallTypeOK, Model!TypeOK, Asking, Counted, Scanning
<1>2. /\ at' \in {"post", "backoff", "scan", "returned"} /\ result' \in {"none", "failed"}
      /\ at' \in {"post", "backoff"} => producer' = "none"
      /\ at' = "scan" => producer' = "read"
      /\ at' = "returned" => producer' = "none"
      /\ producer' \in {"none", "read"}
      /\ result' = "none" <=> at' # "returned"
      /\ attempt' \in 1 .. chatRetries + 1 /\ refused' \subseteq Model!Options
  <2>1. CASE Model!Accepted
    BY <1>1, <2>1 DEF Model!Accepted
  <2>2. CASE Model!FallsBack
    BY <1>1, <2>2 DEF Model!FallsBack, Model!NextOption, Model!Options
  <2>3. CASE Model!Retries
    BY <1>1, <2>3 DEF Model!Retries
  <2>4. CASE Model!Refused
    BY <1>1, <2>4 DEF Model!Refused
  <2>5. CASE Model!WaitBackoff
    BY <1>1, <2>5 DEF Model!WaitBackoff
  <2>6. CASE Model!Cancelled
    BY <1>1, <2>6 DEF Model!Cancelled
  <2> QED
    BY <2>1, <2>2, <2>3, <2>4, <2>5, <2>6 DEF Model!Asked
<1>3. CallTypeOK'
  BY <1>0, <1>1, <1>2 DEF CallIInv, CallTypeOK, Model!TypeOK
<1>4. Asking' /\ Scanning' /\ WholeIfOk' /\ Model!NothingInvented'
  BY <1>0, <1>1, <1>2 DEF CallIInv, Asking, Scanning, WholeIfOk, Model!NothingInvented
<1>5. ShownIsTaken' /\ ShownIsPart'
  <2>1. sent \in Seq(Model!Pieces) /\ Len(sent) = 0 /\ taken = 0 /\ shown = <<>>
    BY <1>0 DEF CallIInv, Asking, CallTypeOK, Model!TypeOK
  <2>2. shown = Model!TextsIn(Begin(sent, 0))
    BY <2>1, OnlyOfNone DEF Model!TextsIn
  <2> QED
    BY <1>0, <1>2, <2>1, <2>2 DEF ShownIsTaken, ShownIsPart
<1>6. Counted'
  <2> DEFINE c == Cardinality(refused)
             d == Cardinality(refused')
  <2>1. /\ refused \subseteq Model!Options /\ c \in Nat /\ IsFiniteSet(refused)
        /\ posts \in Nat /\ attempt \in Nat /\ chatRetries \in Nat
    BY OptionsFinite DEF CallIInv, CallTypeOK, Model!TypeOK, Counted
  <2>2. CASE Model!FallsBack
    <3>1. Model!NextOption \notin refused
      BY <2>1, <2>2 DEF Model!FallsBack, Model!NextOption, Model!Options
    <3>2. d = c + 1
      BY <2>1, <2>2, <3>1, FS_AddElement DEF Model!FallsBack
    <3> HIDE DEF c, d
    <3>3. at = "post" /\ at' = "post" /\ posts' = posts + 1 /\ attempt' = attempt
      BY <2>2 DEF Model!FallsBack
    <3>4. posts + 1 = attempt + c /\ attempt <= chatRetries
      BY <3>3 DEF CallIInv, Counted, c
    <3>5. posts' \in Nat /\ posts' + 1 = attempt' + d /\ attempt' <= chatRetries
      BY <2>1, <3>2, <3>3, <3>4
    <3> QED
      BY <3>3, <3>5 DEF Counted, d
  <2>3. CASE ~ Model!FallsBack
    <3>1. refused' = refused /\ d = c
      BY <2>3 DEF Model!Asked, Model!Accepted, Model!Retries, Model!Refused,
         Model!WaitBackoff, Model!Cancelled
    <3> HIDE DEF c, d
    <3>2. \/ at = "post" /\ at' \in {"scan", "backoff", "returned"} /\ posts' = posts + 1 /\ attempt' = attempt
          \/ at = "backoff" /\ posts' = posts /\ attempt' = attempt /\ at' = "returned"
          \/ /\ at = "backoff" /\ posts' = posts /\ attempt' = attempt + 1
             /\ at' = "returned" \/ (at' = "post" /\ attempt + 1 <= chatRetries)
      <4>1. CASE Model!Accepted \/ Model!Retries \/ Model!Refused
        BY <4>1 DEF Model!Accepted, Model!Retries, Model!Refused
      <4>2. CASE Model!WaitBackoff
        BY <2>1, <4>2 DEF Model!WaitBackoff
      <4>3. CASE Model!Cancelled
        BY <4>3 DEF Model!Cancelled
      <4> QED
        BY <2>3, <4>1, <4>2, <4>3 DEF Model!Asked
    <3>3. /\ at = "post" => posts + 1 = attempt + c
          /\ at = "backoff" => posts = attempt + c
          /\ at \in {"post", "backoff"} => attempt <= chatRetries
      BY DEF CallIInv, Counted, c
    <3>4. /\ posts' \in Nat
          /\ at' = "post" => posts' + 1 = attempt' + c
          /\ at' = "backoff" => posts' = attempt' + c
          /\ at' \in {"post", "backoff"} => attempt' <= chatRetries
          /\ at' \in {"scan", "returned"} => posts' <= chatRetries + c
      BY <2>1, <3>2, <3>3
    <3> QED
      BY <3>1, <3>4 DEF Counted, c, d
  <2> QED
    BY <2>2, <2>3
<1> QED
  BY <1>3, <1>4, <1>5, <1>6 DEF CallIInv

LEMMA CountedKept ==
  ASSUME Counted, UNCHANGED Model!postVars,
         at' = at \/ (at = "scan" /\ at' = "returned")
  PROVE  Counted'
BY DEF Counted, Model!postVars

(* The steps of the provider and of the reader's goroutine. *)
LEMMA StreamsStep ==
  ASSUME CallIInv, NEW p \in Model!Pieces, Model!Streams(p)
  PROVE  CallIInv'
<1> USE ServicesAssumption
<1>1. /\ sent \in Seq(Model!Pieces) /\ taken \in 0 .. Len(sent) /\ Len(sent) \in Nat
      /\ sent' = Append(sent, p) /\ Len(sent) < MaxPieces
  BY DEF CallIInv, CallTypeOK, Model!TypeOK, Model!Streams
<1>2. /\ at = "scan" /\ result = "none"
      /\ UNCHANGED <<at, attempt, posts, refused, ended, producer, held, taken, stopped, bodyClosed,
                     shown, calls, gatewayError, result>>
  BY Zenon DEF CallIInv, Scanning, Model!Streams, Model!postVars, Model!readVars, Model!resVars
<1>3. sent' \in Seq(Model!Pieces) /\ Len(sent') = Len(sent) + 1
  BY <1>1, BeginOfAppend
<1>4. \A n \in 0 .. Len(sent) : Begin(sent', n) = Begin(sent, n)
  BY <1>1, BeginOfAppend
<1>5. taken > 0 => sent'[taken] = sent[taken] /\ taken - 1 \in 0 .. Len(sent)
  BY <1>1, BeginOfAppend
<1>6. CallTypeOK'
  BY <1>1, <1>2, <1>3 DEF CallIInv, CallTypeOK, Model!TypeOK
<1>7. Asking' /\ Scanning' /\ Model!NothingInvented' /\ WholeIfOk'
  BY <1>2 DEF CallIInv, Asking, Scanning, Model!NothingInvented, WholeIfOk
<1>8. Counted'
  BY <1>2, CountedKept DEF CallIInv, Model!postVars
<1>9. ShownIsTaken'
  BY <1>1, <1>2, <1>4, <1>5 DEF CallIInv, ShownIsTaken
<1>10. ShownIsPart'
  BY <1>1, <1>2, <1>3, <1>4 DEF CallIInv, ShownIsPart
<1> QED
  BY <1>6, <1>7, <1>8, <1>9, <1>10 DEF CallIInv

LEMMA EndsStep ==
  ASSUME CallIInv, NEW ending \in {"eof", "drop"}, Model!Ends(ending)
  PROVE  CallIInv'
<1>1. /\ at = "scan" /\ ended' \in {"eof", "drop"}
      /\ UNCHANGED <<at, attempt, posts, refused, sent, producer, held, taken, stopped, bodyClosed,
                     shown, calls, gatewayError, result>>
  BY Zenon DEF Model!Ends, Model!postVars, Model!readVars, Model!resVars
<1> QED
  BY <1>1 DEF CallIInv, CallTypeOK, Model!TypeOK, Asking, Counted, Scanning, ShownIsTaken, ShownIsPart,
     WholeIfOk, Model!NothingInvented

LEMMA BodyReadStep ==
  ASSUME CallIInv, Model!BodyRead
  PROVE  CallIInv'
<1> USE ServicesAssumption
<1>1. /\ sent \in Seq(Model!Pieces) /\ taken \in 0 .. Len(sent) /\ Len(sent) \in Nat
      /\ Len(sent) <= MaxPieces
  BY DEF CallIInv, CallTypeOK, Model!TypeOK
<1>2. /\ producer = "read" /\ producer' = "send"
      /\ UNCHANGED <<at, attempt, posts, refused, sent, ended, stopped, bodyClosed,
                     shown, calls, gatewayError, result>>
  BY Zenon DEF Model!BodyRead, Model!postVars, Model!wireVars, Model!resVars
<1>3. /\ at \in {"scan", "returned"}
      /\ at = "returned" => bodyClosed
      /\ at = "scan" => shown = Model!TextsIn(Begin(sent, taken)) /\ ~ bodyClosed /\ result = "none"
  BY <1>2 DEF CallIInv, CallTypeOK, Model!TypeOK, Asking, Scanning, ShownIsTaken
<1>4. \/ /\ at = "scan" /\ held' = sent[taken + 1] /\ taken' = taken + 1
         /\ taken < Len(sent) /\ held' \in Model!Pieces
      \/ at = "scan" /\ held' \in {"eof", "drop"} /\ taken' = taken
      \/ at = "returned" /\ held' = "drop" /\ taken' = taken
  <2>1. CASE ~ bodyClosed /\ taken < Len(sent) /\ held' = sent[taken + 1] /\ taken' = taken + 1
    <3>1. taken + 1 \in 1 .. Len(sent)
      BY <1>1, <2>1
    <3>2. sent[taken + 1] \in Model!Pieces
      BY <1>1, <3>1
    <3> QED
      BY <1>3, <2>1, <3>2
  <2>2. CASE ~ bodyClosed /\ ended # "no" /\ held' = ended /\ taken' = taken
    BY <1>3, <2>2 DEF CallIInv, CallTypeOK, Model!TypeOK
  <2>3. CASE bodyClosed /\ held' = "drop" /\ taken' = taken
    BY <1>3, <2>3
  <2> QED
    BY <2>1, <2>2, <2>3 DEF Model!BodyRead
<1>5. CallTypeOK'
  BY <1>1, <1>2, <1>4 DEF CallIInv, CallTypeOK, Model!TypeOK
<1>6. Asking' /\ Model!NothingInvented'
  BY <1>2, <1>3 DEF CallIInv, Asking, Model!NothingInvented
<1>7. Scanning'
  BY <1>2, <1>3 DEF CallIInv, Scanning
<1>8. Counted'
  BY <1>2, CountedKept DEF CallIInv, Model!postVars
<1>9. ShownIsTaken'
  <2>1. CASE taken' = taken + 1 /\ held' = sent[taken + 1] /\ held' \in Model!Pieces
    <3>1. taken' > 0 /\ taken' - 1 = taken
      BY <1>1, <2>1
    <3> QED
      BY <1>2, <1>3, <2>1, <3>1 DEF ShownIsTaken
  <2>2. CASE taken' = taken /\ held' \in {"eof", "drop"}
    BY <1>2, <1>3, <2>2 DEF ShownIsTaken, Model!Pieces
  <2> QED
    BY <1>4, <2>1, <2>2
<1>10. ShownIsPart' /\ WholeIfOk'
  BY <1>2, <1>3, <1>4 DEF CallIInv, ShownIsPart, WholeIfOk
<1> QED
  BY <1>5, <1>6, <1>7, <1>8, <1>9, <1>10 DEF CallIInv

LEMMA ProducerStopsStep ==
  ASSUME CallIInv, Model!ProducerStops
  PROVE  CallIInv'
<1>1. /\ at = "returned" /\ producer' = "gone" /\ bodyClosed
      /\ UNCHANGED <<at, attempt, posts, refused, sent, ended, held, taken, stopped, bodyClosed,
                     shown, calls, gatewayError, result>>
  <2>1. /\ producer = "send" /\ stopped /\ producer' = "gone"
        /\ UNCHANGED <<at, attempt, posts, refused, sent, ended, held, taken, stopped, bodyClosed,
                       shown, calls, gatewayError, result>>
    BY Zenon DEF Model!ProducerStops, Model!postVars, Model!wireVars, Model!resVars
  <2> QED
    BY <2>1 DEF CallIInv, CallTypeOK, Model!TypeOK, Asking, Scanning
<1> QED
  BY <1>1 DEF CallIInv, CallTypeOK, Model!TypeOK, Asking, Counted, Scanning, ShownIsTaken, ShownIsPart,
     WholeIfOk, Model!NothingInvented

(* The steps of the scan. *)
LEMMA HandsHave ==
  ASSUME CallIInv, Model!Hands
  PROVE  /\ sent \in Seq(Model!Pieces) /\ Len(sent) \in Nat /\ taken \in 0 .. Len(sent)
         /\ result = "none" /\ calls = <<>>
         /\ held \in Model!Pieces =>
              /\ taken - 1 \in Nat /\ taken - 1 < Len(sent) /\ taken - 1 + 1 = taken
              /\ held = sent[taken] /\ shown = Model!TextsIn(Begin(sent, taken - 1))
         /\ held \notin Model!Pieces => shown = Model!TextsIn(Begin(sent, taken))
BY DEF CallIInv, CallTypeOK, Model!TypeOK, Scanning, ShownIsTaken, Model!Hands

(* A piece that is no text adds none. *)
LEMMA TextsOfHeld ==
  ASSUME CallIInv, Model!Hands, held \in Model!Pieces
  PROVE  Model!TextsIn(Begin(sent, taken)) =
           IF held = "text" THEN Append(shown, held) ELSE shown
<1>1. Model!Only("text", Begin(sent, taken - 1 + 1)) =
        IF sent[taken - 1 + 1] = "text" THEN Append(Model!Only("text", Begin(sent, taken - 1)), "text")
                                        ELSE Model!Only("text", Begin(sent, taken - 1))
  BY HandsHave, OnlyOfNext
<1>2. /\ taken - 1 + 1 = taken /\ held = sent[taken]
      /\ shown = Model!Only("text", Begin(sent, taken - 1))
  BY HandsHave DEF Model!TextsIn
<1> QED
  BY <1>1, <1>2 DEF Model!TextsIn

LEMMA HandleStep ==
  ASSUME CallIInv, Model!Handle
  PROVE  CallIInv'
<1>1. /\ at = "scan" /\ held \in Model!Pieces /\ producer' = "read" /\ Model!Hands
      /\ shown' = IF held = "text" THEN Append(shown, held) ELSE shown
      /\ UNCHANGED <<at, attempt, posts, refused, sent, ended, held, taken, stopped, bodyClosed,
                     calls, result>>
  BY Zenon DEF Model!Handle, Model!Hands, Model!postVars, Model!wireVars
<1>2. gatewayError' \in BOOLEAN
  BY Zenon DEF Model!Handle
<1>3. shown' = Model!TextsIn(Begin(sent, taken))
  BY <1>1, TextsOfHeld
<1>4. result = "none" /\ calls = <<>> /\ taken \in 0 .. Len(sent)
  BY <1>1, HandsHave
<1>5. CallTypeOK'
  BY <1>1, <1>2 DEF CallIInv, CallTypeOK, Model!TypeOK
<1>6. Asking' /\ Scanning' /\ WholeIfOk' /\ Model!NothingInvented'
  BY <1>1, <1>4 DEF CallIInv, Asking, Scanning, WholeIfOk, Model!NothingInvented
<1>7. Counted'
  BY <1>1, CountedKept DEF CallIInv, Model!postVars
<1>8. ShownIsTaken' /\ ShownIsPart'
  BY <1>1, <1>3, <1>4 DEF ShownIsTaken, ShownIsPart
<1> QED
  BY <1>5, <1>6, <1>7, <1>8 DEF CallIInv

LEMMA ScanEndsStep ==
  ASSUME CallIInv, Model!ScanEnds
  PROVE  CallIInv'
<1>1. /\ Model!Hands /\ at = "scan" /\ held \in {"done", "eof"} /\ producer' \in {"read", "gone"}
      /\ bodyClosed' = TRUE /\ stopped' = TRUE /\ at' = "returned"
      /\ calls' = Model!CallsIn(Begin(sent, taken))
      /\ UNCHANGED <<attempt, posts, refused, sent, ended, held, taken, shown, gatewayError>>
  BY DEF Model!ScanEnds, Model!Hands, Model!Return, Model!Folded, Begin, Model!postVars, Model!wireVars
<1>2. \/ result' = "empty" /\ shown = <<>> /\ calls' = <<>> /\ gatewayError
      \/ result' = "ok" /\ ~ (shown = <<>> /\ calls' = <<>> /\ gatewayError)
  BY DEF Model!ScanEnds, Model!Return, Model!Verdict
<1>3. shown = Model!TextsIn(Begin(sent, taken))
  <2>1. CASE held = "done"
    BY <1>1, <2>1, TextsOfHeld DEF Model!Pieces
  <2>2. CASE held = "eof"
    BY <1>1, <2>2, HandsHave DEF Model!Pieces
  <2> QED
    BY <1>1, <2>1, <2>2
<1>4. CallTypeOK'
  BY <1>1, <1>2 DEF CallIInv, CallTypeOK, Model!TypeOK
<1>5. Asking' /\ Scanning' /\ ShownIsTaken'
  BY <1>1, <1>2 DEF Asking, Scanning, ShownIsTaken
<1>6. WholeIfOk' /\ Model!NothingInvented'
  BY <1>1, <1>2, <1>3 DEF WholeIfOk, Model!NothingInvented
<1>7. Counted'
  BY <1>1, CountedKept DEF CallIInv, Model!postVars
<1>8. ShownIsPart'
  BY <1>1 DEF CallIInv, ShownIsPart
<1> QED
  BY <1>4, <1>5, <1>6, <1>7, <1>8 DEF CallIInv

(* A scan that fails returns what it has shown, and no call. *)
LEMMA PartialStep ==
  ASSUME CallIInv, Model!ScanFails \/ Model!Stalls \/ Model!LineTooLong
  PROVE  CallIInv'
<1>1. /\ at = "scan" /\ at' = "returned" /\ result' = "partial" /\ bodyClosed' = TRUE
      /\ stopped' \in {stopped, TRUE} /\ producer' \in {"read", "gone"}
      /\ UNCHANGED <<attempt, posts, refused, sent, ended, held, taken, shown, calls, gatewayError>>
  BY DEF Model!ScanFails, Model!Stalls, Model!LineTooLong, Model!Hands, Model!KeepsPartial, Model!Return,
         Model!postVars, Model!wireVars, Model!resVars
<1>2. CallTypeOK' /\ calls = <<>>
  BY <1>1 DEF CallIInv, CallTypeOK, Model!TypeOK, Scanning
<1>3. Asking' /\ Scanning' /\ ShownIsTaken' /\ WholeIfOk' /\ Model!NothingInvented'
  BY <1>1, <1>2 DEF Asking, Scanning, ShownIsTaken, WholeIfOk, Model!NothingInvented
<1>4. Counted'
  BY <1>1, CountedKept DEF CallIInv, Model!postVars
<1>5. ShownIsPart'
  BY <1>1 DEF CallIInv, ShownIsPart
<1> QED
  BY <1>2, <1>3, <1>4, <1>5 DEF CallIInv

LEMMA CallStep == CallIInv /\ [Model!Next]_callVars => CallIInv'
<1> SUFFICES ASSUME CallIInv, [Model!Next]_callVars
             PROVE  CallIInv'
  OBVIOUS
<1>1. CASE Model!Next
  BY <1>1, AskedStep, StreamsStep, EndsStep, BodyReadStep, ProducerStopsStep, HandleStep, ScanEndsStep,
     PartialStep DEF Model!Next
<1>2. CASE UNCHANGED callVars
  BY <1>2 DEF callVars, CallIInv, CallTypeOK, Model!TypeOK, Asking, Counted, Scanning, ShownIsTaken,
     ShownIsPart, WholeIfOk, Model!NothingInvented
<1> QED
  BY <1>1, <1>2

(* ChatStream: whichever requests failed and whatever the stream did, what a call has
   shown is the beginning of one response, and all that was read of it when the call
   succeeds; no call of a tool comes of a stream that broke; and it makes no more
   requests than its retries and fallbacks. *)
THEOREM StreamIsOfOne == PartsSpec => []StreamHolds
<1>1. PartsInit => CallIInv
  BY CallInit DEF PartsInit
<1>2. CallIInv /\ [PartsNext]_vars => CallIInv'
  <2> SUFFICES ASSUME CallIInv, [PartsNext]_vars
               PROVE  CallIInv'
    OBVIOUS
  <2>1. CASE InModel(Model!Next)
    BY <2>1, CallStep DEF InModel
  <2>2. CASE UNCHANGED callVars
    BY <2>2, CallStep
  <2> QED
    BY <2>1, <2>2 DEF PartsNext, InJobs, InAsks, InLoop, vars, callVars
<1>3. CallIInv => StreamHolds
  <2> SUFFICES ASSUME CallIInv
               PROVE  StreamHolds
    OBVIOUS
  <2>1. Model!TypeOK /\ Model!NothingInvented /\ sent \in Seq(Model!Pieces)
    BY DEF CallIInv, CallTypeOK, Model!TypeOK
  <2>2. Model!IsPrefix(shown, Model!TextsIn(sent))
    BY <2>1, OnlyOfPrefix DEF CallIInv, ShownIsPart, Model!TextsIn
  <2>3. Model!ShownOnce
    BY <2>1, <2>2 DEF CallIInv, Asking, Scanning, WholeIfOk, Model!ShownOnce, Model!TypeOK, Begin
  <2>4. Model!RequestsBounded
    <3>1. refused \in SUBSET Model!Options
      BY DEF CallIInv, CallTypeOK, Model!TypeOK
    <3>2. Cardinality(refused) \in Nat
      BY <3>1, OptionsFinite
    <3>3. posts <= chatRetries + Cardinality(refused)
      BY <2>1, <3>2, ServicesAssumption DEF CallIInv, Counted, Model!TypeOK
    <3> QED
      BY <3>3, SameCardinality DEF Model!RequestsBounded
  <2> QED
    BY <2>1, <2>3, <2>4 DEF StreamHolds
<1> QED
  BY <1>1, <1>2, <1>3, PTL DEF PartsSpec
-----------------------------------------------------------------------------
(* f is the function that FlattenSeq computes over the first n of ss. *)
Joins(f, ss, n) ==
  f = [i \in 1 .. n |-> IF i = 1 THEN ss[i] ELSE f[i - 1] \o ss[i]]

LEMMA LeastOf ==
  ASSUME NEW S \in SUBSET Nat, S # {}
  PROVE  \E n \in S : \A m \in S : n <= m
<1> DEFINE R == OpToRel(<, Nat)
<1>1. \A x, y \in Nat : x < y => <<x, y>> \in R
  BY DEF OpToRel
<1>2. IsWellFoundedOn(R, Nat)
  BY NatLessThanWellFounded
<1> HIDE DEF R
<1>3. PICK n \in S : \A m \in S : ~(<<m, n>> \in R)
  BY <1>2, WFMin
<1>4. ASSUME NEW m \in S
      PROVE  n <= m
  <2>1. ~(m < n)
    BY <1>1, <1>3
  <2> QED
    BY <2>1
<1> QED
  BY <1>4

LEMMA JoinsAgree ==
  ASSUME NEW ss, NEW tt, NEW f, NEW g, NEW n \in Nat, NEW k \in Nat, n <= k,
         \A i \in 1 .. n : ss[i] = tt[i], Joins(f, ss, n), Joins(g, tt, k)
  PROVE  \A i \in 1 .. n : f[i] = g[i]
<1> DEFINE Bad == {i \in 1 .. n : f[i] # g[i]}
<1>1. SUFFICES ASSUME Bad # {}
               PROVE  FALSE
  OBVIOUS
<1>2. PICK e \in Bad : \A j \in Bad : e <= j
  <2>1. Bad \in SUBSET Nat
    OBVIOUS
  <2> HIDE DEF Bad
  <2> QED
    BY <1>1, <2>1, LeastOf
<1>3. e \in 1 .. n /\ e \in 1 .. k /\ ss[e] = tt[e]
  BY <1>2
<1>4. /\ f[e] = IF e = 1 THEN ss[e] ELSE f[e - 1] \o ss[e]
      /\ g[e] = IF e = 1 THEN tt[e] ELSE g[e - 1] \o tt[e]
  BY <1>3 DEF Joins
<1>5. e # 1
  BY <1>2, <1>3, <1>4
<1>6. f[e - 1] = g[e - 1]
  BY <1>2, <1>5
<1> QED
  BY <1>2, <1>3, <1>4, <1>6

LEMMA JoinsExists ==
  ASSUME NEW T, NEW ss \in Seq(Seq(T)), NEW n \in 0 .. Len(ss)
  PROVE  \E f \in [1 .. n -> Seq(T)] : Joins(f, ss, n)
<1> DEFINE Bad == {k \in 0 .. n : ~ \E f \in [1 .. k -> Seq(T)] : Joins(f, ss, k)}
<1>0. n \in Nat /\ Len(ss) \in Nat /\ \A i \in 1 .. Len(ss) : ss[i] \in Seq(T)
  OBVIOUS
<1>1. SUFFICES ASSUME Bad # {}
               PROVE  FALSE
  BY <1>0
<1>2. PICK k \in Bad : \A j \in Bad : k <= j
  <2>1. Bad \in SUBSET Nat
    OBVIOUS
  <2> HIDE DEF Bad
  <2> QED
    BY <1>1, <2>1, LeastOf
<1>3. CASE k = 0
  <2>1. <<>> \in [1 .. 0 -> Seq(T)] /\ Joins(<<>>, ss, 0)
    BY DEF Joins
  <2> QED
    BY <1>2, <1>3, <2>1
<1>4. CASE k # 0
  <2>0. k \in 1 .. n /\ k - 1 \in 0 .. n /\ k - 1 \notin Bad
    <3>1. k \in 0 .. n
      OBVIOUS
    <3> HIDE DEF Bad
    <3> QED
      BY <1>0, <1>2, <1>4, <3>1
  <2>1. PICK f \in [1 .. k - 1 -> Seq(T)] : Joins(f, ss, k - 1)
    BY <2>0
  <2> DEFINE g == [i \in 1 .. k |-> IF i = k THEN IF k = 1 THEN ss[k] ELSE f[k - 1] \o ss[k]
                                             ELSE f[i]]
  <2>2. \A i \in 1 .. k - 1 : f[i] = IF i = 1 THEN ss[i] ELSE f[i - 1] \o ss[i]
    BY <2>1 DEF Joins
  <2>3. g \in [1 .. k -> Seq(T)]
    <3>1. ASSUME NEW i \in 1 .. k
          PROVE  g[i] \in Seq(T)
      <4>1. ss[k] \in Seq(T)
        BY <1>0, <2>0
      <4>2. CASE i = k /\ k = 1
        BY <4>1, <4>2
      <4>3. CASE i = k /\ k # 1
        <5>1. f[k - 1] \in Seq(T)
          BY <2>0, <2>1, <4>3
        <5>2. f[k - 1] \o ss[k] \in Seq(T)
          BY <4>1, <5>1
        <5> QED
          BY <4>3, <5>2
      <4>4. CASE i # k
        BY <2>0, <2>1, <4>4
      <4> QED
        BY <4>2, <4>3, <4>4
    <3> QED
      BY <3>1
  <2>4. \A i \in 1 .. k : g[i] = IF i = 1 THEN ss[i] ELSE g[i - 1] \o ss[i]
    <3>1. SUFFICES ASSUME NEW i \in 1 .. k
                   PROVE  g[i] = IF i = 1 THEN ss[i] ELSE g[i - 1] \o ss[i]
      OBVIOUS
    <3>2. CASE i = k
      <4>1. k # 1 => g[k - 1] = f[k - 1]
        BY <2>0
      <4> QED
        BY <3>2, <4>1
    <3>3. CASE i # k
      <4>1. i \in 1 .. k - 1 /\ (i # 1 => i - 1 \in 1 .. k /\ i - 1 # k)
        BY <2>0, <3>3
      <4>2. g[i] = f[i] /\ (i # 1 => g[i - 1] = f[i - 1])
        BY <4>1, <3>3
      <4> QED
        BY <2>2, <4>1, <4>2
    <3> QED
      BY <3>2, <3>3
  <2> HIDE DEF g
  <2>5. Joins(g, ss, k)
    BY <2>3, <2>4 DEF Joins
  <2> QED
    BY <1>2, <2>3, <2>5
<1> QED
  BY <1>3, <1>4

LEMMA FlattenJoins ==
  ASSUME NEW T, NEW ss \in Seq(Seq(T)), Len(ss) # 0
  PROVE  \E f \in [1 .. Len(ss) -> Seq(T)] : Joins(f, ss, Len(ss)) /\ Loop!FlattenSeq(ss) = f[Len(ss)]
<1> DEFINE h == CHOOSE f : Joins(f, ss, Len(ss))
<1>1. Loop!FlattenSeq(ss) = h[Len(ss)]
  BY DEF Loop!FlattenSeq, Joins
<1>2. PICK f \in [1 .. Len(ss) -> Seq(T)] : Joins(f, ss, Len(ss))
  BY JoinsExists
<1>3. Joins(h, ss, Len(ss))
  BY <1>2
<1> HIDE DEF h
<1>4. Len(ss) \in 1 .. Len(ss) /\ Len(ss) \in Nat
  OBVIOUS
<1>5. f[Len(ss)] = h[Len(ss)]
  BY <1>2, <1>3, <1>4, JoinsAgree
<1> QED
  BY <1>1, <1>2, <1>5

LEMMA FlattenNext ==
  ASSUME NEW T, NEW ss \in Seq(Seq(T)), NEW s \in Seq(T)
  PROVE  /\ Loop!FlattenSeq(<<>>) = <<>>
         /\ Loop!FlattenSeq(ss) \in Seq(T)
         /\ Loop!FlattenSeq(Append(ss, s)) = Loop!FlattenSeq(ss) \o s
<1> DEFINE n == Len(ss)  tt == Append(ss, s)
<1>1. /\ n \in Nat /\ tt \in Seq(Seq(T)) /\ Len(tt) = n + 1 /\ tt[n + 1] = s
      /\ \A i \in 1 .. n : tt[i] = ss[i]
  OBVIOUS
<1> HIDE DEF tt
<1>2. Loop!FlattenSeq(<<>>) = <<>>
  BY DEF Loop!FlattenSeq
<1> HIDE DEF n
<1>3. Loop!FlattenSeq(ss) \in Seq(T)
  <2>1. CASE n = 0
    <3>1. ss = <<>> /\ <<>> \in Seq(T)
      BY <2>1 DEF n
    <3> QED
      BY <1>2, <3>1, Zenon
  <2>2. CASE n # 0
    <3>1. PICK f \in [1 .. n -> Seq(T)] : Loop!FlattenSeq(ss) = f[n]
      BY <2>2, FlattenJoins DEF n
    <3> QED
      BY <1>1, <2>2, <3>1
  <2> QED
    BY <2>1, <2>2
<1>4. PICK g : Joins(g, tt, n + 1) /\ Loop!FlattenSeq(tt) = g[n + 1]
  <2>1. Len(tt) # 0
    BY <1>1
  <2> QED
    BY <1>1, <2>1, FlattenJoins
<1>5. g[n + 1] = IF n + 1 = 1 THEN s ELSE g[n] \o s
  <2>1. n + 1 \in 1 .. n + 1 /\ (n + 1) - 1 = n
    BY <1>1
  <2>2. g[n + 1] = IF n + 1 = 1 THEN tt[n + 1] ELSE g[(n + 1) - 1] \o tt[n + 1]
    BY <1>4, <2>1 DEF Joins
  <2> QED
    BY <1>1, <2>1, <2>2
<1>6. CASE n = 0
  <2>1. ss = <<>> /\ <<>> \o s = s
    BY <1>6 DEF n
  <2> QED
    <3>1. Loop!FlattenSeq(tt) = s
      BY <1>4, <1>5, <1>6
    <3>2. Loop!FlattenSeq(ss) = <<>>
      BY <1>2, <2>1, Zenon
    <3> QED
      BY <1>2, <1>3, <2>1, <3>1, <3>2 DEF tt
<1>7. CASE n # 0
  <2>1. PICK f : Joins(f, ss, n) /\ Loop!FlattenSeq(ss) = f[n]
    BY <1>7, FlattenJoins DEF n
  <2>2. n \in 1 .. n /\ n <= n + 1
    BY <1>1, <1>7
  <2>3. f[n] = g[n]
    <3>1. \A i \in 1 .. n : ss[i] = tt[i]
      BY <1>1
    <3>2. n \in Nat /\ n + 1 \in Nat /\ Joins(f, ss, n) /\ Joins(g, tt, n + 1)
      BY <1>1, <1>4, <2>1
    <3> QED
      BY <2>2, <3>1, <3>2, JoinsAgree
  <2> QED
    <3>1. Loop!FlattenSeq(tt) = g[n] \o s
      BY <1>1, <1>4, <1>5, <1>7
    <3> QED
      BY <1>2, <1>3, <2>1, <2>3, <3>1 DEF tt
<1> QED
  BY <1>2, <1>3, <1>6, <1>7 DEF tt
-----------------------------------------------------------------------------
(* A row of the loop, and whether it says something of this turn. *)
LoopRow ==
  [role : {"user", "assistant", "tool"}, text : Seq(0 .. MaxCalls),
   calls : Seq((0 .. MaxCalls) \X (1 .. 4))]
Says(m) == IF m.role = "assistant" /\ 0 \notin Loop!Range(m.text) THEN m.text ELSE <<>>

(* What was streamed and not abandoned. *)
Wanted == Loop!Without(streamed, abandoned)

(* The pieces of a call that is under way are still to come. *)
PiecesBefore ==
  /\ \A i \in DOMAIN streamed : streamed[i] <= modelCalls
  /\ place = "call" => /\ modelCalls # 0 /\ modelCalls \notin abandoned
                       /\ \A i \in DOMAIN streamed : streamed[i] # modelCalls

LoopTypes ==
  /\ rows \in Seq(LoopRow)
  /\ modelCalls \in 0 .. MaxCalls /\ abandoned \subseteq 1 .. modelCalls
  /\ streamed \in Seq(1 .. MaxCalls) /\ partial \in Seq(1 .. MaxCalls)
  /\ toRun \in Seq((0 .. MaxCalls) \X (1 .. 4))
  /\ place \in {"top", "call", "tools", "after", "returned"}

(* While the turn runs, the rows and after them the kept text are what was streamed. *)
TextHeld ==
  place # "returned" => how = "running" /\ Loop!Mine(rows) \o partial = Wanted

PartialKept == ~kept => partial = <<>>

LoopIInv == LoopTypes /\ PiecesBefore /\ TextHeld /\ PartialKept /\ Loop!AnswerIsStored
-----------------------------------------------------------------------------
LEMMA MineNone == Loop!Mine(<<>>) = <<>>
<1> DEFINE None == [i \in DOMAIN <<>> |-> Says(<<>>[i])]
<1>1. None = <<>>
  OBVIOUS
<1>2. Loop!Mine(<<>>) = Loop!FlattenSeq(None)
  BY DEF Loop!Mine, Says
<1> HIDE DEF None
<1>3. Loop!FlattenSeq(<<>>) = <<>>
  BY DEF Loop!FlattenSeq
<1> QED
  BY <1>1, <1>2, <1>3, Zenon

(* A row more says what it says. *)
LEMMA MineNext ==
  ASSUME NEW s \in Seq(LoopRow), NEW m \in LoopRow
  PROVE  /\ Loop!Mine(s) \in Seq(0 .. MaxCalls)
         /\ Loop!Mine(Append(s, m)) = Loop!Mine(s) \o Says(m)
<1> DEFINE R == LoopRow  T == 0 .. MaxCalls
           Each(t) == [i \in DOMAIN t |-> Says(t[i])]
<1>1. ASSUME NEW r \in R
      PROVE  Says(r) \in Seq(T)
  <2>1. r.text \in Seq(T)
    BY DEF LoopRow
  <2> HIDE DEF T, R
  <2>2. <<>> \in Seq(T)
    OBVIOUS
  <2> QED
    BY <2>1, <2>2 DEF Says
<1>2. s \in Seq(R) /\ m \in R
  OBVIOUS
<1>3. \A t : Loop!Mine(t) = Loop!FlattenSeq(Each(t))
  BY DEF Loop!Mine, Says
<1> HIDE DEF T, R
<1>4. /\ Len(s) \in Nat /\ DOMAIN s = 1 .. Len(s) /\ \A i \in 1 .. Len(s) : s[i] \in R
      /\ DOMAIN Append(s, m) = 1 .. Len(s) + 1 /\ Append(s, m)[Len(s) + 1] = m
      /\ \A i \in 1 .. Len(s) : Append(s, m)[i] = s[i]
  BY <1>2
<1>5. Each(s) \in Seq(Seq(T)) /\ Len(Each(s)) = Len(s)
  BY <1>1, <1>4
<1>6. Each(Append(s, m)) = Append(Each(s), Says(m))
  BY <1>4, <1>5
<1> HIDE DEF Each
<1>7. Says(m) \in Seq(T)
  BY <1>1, <1>2
<1>8. /\ Loop!FlattenSeq(Each(s)) \in Seq(T)
      /\ Loop!FlattenSeq(Append(Each(s), Says(m))) = Loop!FlattenSeq(Each(s)) \o Says(m)
  BY <1>5, <1>7, FlattenNext
<1> QED
  BY <1>3, <1>6, <1>8 DEF T

LEMMA WithoutNone ==
  ASSUME NEW S
  PROVE  Loop!Without(<<>>, S) = <<>>
<1> DEFINE None == [i \in DOMAIN <<>> |-> IF <<>>[i] \in S THEN <<>> ELSE <<<<>>[i]>>]
<1>1. None = <<>>
  OBVIOUS
<1>2. Loop!Without(<<>>, S) = Loop!FlattenSeq(None)
  BY DEF Loop!Without
<1> HIDE DEF None
<1>3. Loop!FlattenSeq(<<>>) = <<>>
  BY DEF Loop!FlattenSeq
<1> QED
  BY <1>1, <1>2, <1>3, Zenon

(* A piece more is there, unless it is left out. *)
LEMMA WithoutNext ==
  ASSUME NEW T, NEW s \in Seq(T), NEW e \in T, NEW S
  PROVE  /\ Loop!Without(s, S) \in Seq(T)
         /\ e \in S => Loop!Without(Append(s, e), S) = Loop!Without(s, S)
         /\ e \notin S => Loop!Without(Append(s, e), S) = Loop!Without(s, S) \o <<e>>
<1> DEFINE One(r) == IF r \in S THEN <<>> ELSE <<r>>
           Ones(t) == [i \in DOMAIN t |-> One(t[i])]
<1>1. \A r \in T : One(r) \in Seq(T)
  OBVIOUS
<1>2. /\ Len(s) \in Nat /\ DOMAIN s = 1 .. Len(s) /\ \A i \in 1 .. Len(s) : s[i] \in T
      /\ DOMAIN Append(s, e) = 1 .. Len(s) + 1 /\ Append(s, e)[Len(s) + 1] = e
      /\ \A i \in 1 .. Len(s) : Append(s, e)[i] = s[i]
  OBVIOUS
<1>3. \A t : Loop!Without(t, S) = Loop!FlattenSeq(Ones(t))
  BY DEF Loop!Without
<1> HIDE DEF One
<1>4. Ones(s) \in Seq(Seq(T)) /\ Len(Ones(s)) = Len(s)
  BY <1>1, <1>2
<1>5. Ones(Append(s, e)) = Append(Ones(s), One(e))
  BY <1>2, <1>4
<1> HIDE DEF Ones
<1>6. One(e) \in Seq(T)
  BY <1>1
<1>7. /\ Loop!FlattenSeq(Ones(s)) \in Seq(T)
      /\ Loop!FlattenSeq(Append(Ones(s), One(e))) = Loop!FlattenSeq(Ones(s)) \o One(e)
  BY <1>4, <1>6, FlattenNext
<1>8. Loop!Without(s, S) \in Seq(T) /\ Loop!Without(Append(s, e), S) = Loop!Without(s, S) \o One(e)
  BY <1>3, <1>5, <1>7
<1>9. e \in S => Loop!Without(s, S) \o One(e) = Loop!Without(s, S)
  BY <1>8, ConcatEmptySeq DEF One
<1> QED
  BY <1>8, <1>9 DEF One

(* To leave out what is not there changes nothing. *)
LEMMA WithoutMore ==
  ASSUME NEW T, NEW s \in Seq(T), NEW S, NEW X, \A i \in DOMAIN s : s[i] \notin X
  PROVE  Loop!Without(s, S \cup X) = Loop!Without(s, S)
<1> DEFINE Ones(V) == [i \in DOMAIN s |-> IF s[i] \in V THEN <<>> ELSE <<s[i]>>]
<1>1. Ones(S \cup X) = Ones(S)
  OBVIOUS
<1>2. \A V : Loop!Without(s, V) = Loop!FlattenSeq(Ones(V))
  BY DEF Loop!Without
<1> QED
  BY <1>1, <1>2, Zenon
-----------------------------------------------------------------------------
(* What the rows of the loop are made of. *)
LEMMA LoopRows ==
  /\ Loop!Asked \in LoopRow /\ Says(Loop!Asked) = <<>>
  /\ \A c \in (0 .. MaxCalls) \X (1 .. 4) :
       Loop!Result(c) \in LoopRow /\ Says(Loop!Result(c)) = <<>>
  /\ \A t \in Seq(1 .. MaxCalls), c \in Seq((0 .. MaxCalls) \X (1 .. 4)) :
       Loop!Assistant(t, c) \in LoopRow /\ Says(Loop!Assistant(t, c)) = t
  /\ \A c \in Seq((0 .. MaxCalls) \X (1 .. 4)) :
       Loop!Assistant(<<0>>, c) \in LoopRow /\ Says(Loop!Assistant(<<0>>, c)) = <<>>
<1> USE LoopAssumption DEF Loop!Message, LoopRow
<1> DEFINE C == (0 .. MaxCalls) \X (1 .. 4)
<1>1. <<>> \in Seq(0 .. MaxCalls) /\ <<>> \in Seq(C) /\ <<0>> \in Seq(0 .. MaxCalls)
  OBVIOUS
<1> HIDE DEF C
<1>2. Loop!Asked \in LoopRow /\ Says(Loop!Asked) = <<>>
  BY <1>1 DEF Loop!Asked, Loop!User, Says, C
<1>3. ASSUME NEW c \in C
      PROVE  Loop!Result(c) \in LoopRow /\ Says(Loop!Result(c)) = <<>>
  <2>1. <<c>> \in Seq(C)
    OBVIOUS
  <2> QED
    BY <1>1, <2>1 DEF Loop!Result, Says, C
<1>4. ASSUME NEW t \in Seq(1 .. MaxCalls), NEW c \in Seq(C)
      PROVE  Loop!Assistant(t, c) \in LoopRow /\ Says(Loop!Assistant(t, c)) = t
  <2>1. t \in Seq(0 .. MaxCalls) /\ 0 \notin Loop!Range(t)
    BY DEF Loop!Range
  <2>2. /\ Loop!Assistant(t, c).role = "assistant" /\ Loop!Assistant(t, c).text = t
        /\ Loop!Assistant(t, c) \in LoopRow
    BY <2>1 DEF Loop!Assistant, C
  <2> HIDE DEF LoopRow
  <2> QED
    BY <2>1, <2>2 DEF Says
<1>5. ASSUME NEW c \in Seq(C)
      PROVE  Loop!Assistant(<<0>>, c) \in LoopRow /\ Says(Loop!Assistant(<<0>>, c)) = <<>>
  <2>1. 0 \in Loop!Range(<<0>>)
    BY DEF Loop!Range
  <2> QED
    BY <1>1, <2>1 DEF Loop!Assistant, Says, C
<1> QED
  BY <1>2, <1>3, <1>4, <1>5 DEF C

(* A row with nothing of this turn. *)
LEMMA QuietRow ==
  ASSUME NEW s \in Seq(LoopRow), NEW m \in LoopRow, Says(m) = <<>>
  PROVE  Append(s, m) \in Seq(LoopRow) /\ Loop!Mine(Append(s, m)) = Loop!Mine(s)
<1>1. Append(s, m) \in Seq(LoopRow)
  OBVIOUS
<1> DEFINE u == Loop!Mine(s)
<1>2. u \in Seq(0 .. MaxCalls) /\ Loop!Mine(Append(s, m)) = u \o <<>>
  BY MineNext
<1> HIDE DEF u
<1>3. u \o <<>> = u
  BY <1>2, ConcatEmptySeq
<1> QED
  BY <1>1, <1>2, <1>3 DEF u

(* Rows with nothing of this turn. *)
LEMMA QuietRows ==
  ASSUME NEW s \in Seq({m \in LoopRow : Says(m) = <<>>})
  PROVE  s \in Seq(LoopRow) /\ Loop!Mine(s) = <<>>
<1> DEFINE Each == [i \in DOMAIN s |-> Says(s[i])]
           g == [i \in 1 .. Len(s) |-> <<>>]
<1>1. s \in Seq(LoopRow)
  BY SeqMonotonic
<1>2. /\ Len(s) \in Nat /\ DOMAIN s = 1 .. Len(s) /\ \A i \in 1 .. Len(s) : Says(s[i]) = <<>>
  OBVIOUS
<1>3. CASE s = <<>>
  BY <1>1, <1>3, MineNone, Zenon
<1>4. CASE s # <<>>
  <2>1. Loop!Mine(s) = Loop!FlattenSeq(Each)
    BY DEF Loop!Mine, Says
  <2>2. Each = g
    BY <1>2
  <2>3. g \in Seq(Seq(Nat)) /\ Len(g) = Len(s) /\ Len(g) # 0 /\ \A i \in 1 .. Len(s) : g[i] = <<>>
    BY <1>2, <1>4
  <2> HIDE DEF Each, g
  <2>4. PICK fs : Joins(fs, g, Len(g)) /\ Loop!FlattenSeq(g) = fs[Len(g)]
    BY <2>3, FlattenJoins
  <2>5. Joins(g, g, Len(s))
    BY <2>3 DEF Joins, g
  <2>6. fs[Len(s)] = g[Len(s)]
    <3>1. Len(s) \in 1 .. Len(s) /\ Len(s) <= Len(s)
      BY <1>2, <2>3
    <3>2. Joins(fs, g, Len(s))
      BY <2>3, <2>4
    <3>3. \A i \in 1 .. Len(s) : fs[i] = g[i]
      BY <1>2, <2>5, <3>1, <3>2, JoinsAgree
    <3> QED
      BY <3>1, <3>3
  <2>7. Len(s) \in 1 .. Len(s)
    BY <1>2, <2>3
  <2> QED
    BY <1>1, <2>1, <2>2, <2>3, <2>4, <2>6, <2>7
<1> QED
  BY <1>3, <1>4

LEMMA LoopInit == Loop!Init => LoopIInv
<1> SUFFICES ASSUME Loop!Init
             PROVE  LoopIInv
  OBVIOUS
<1> DEFINE Quiet == {m \in LoopRow : Says(m) = <<>>}
           C == (0 .. MaxCalls) \X (1 .. 4)
<1>1. MaxCalls \in Nat
  BY LoopAssumption
<1>2. rows \in Seq(Quiet)
  <2>1. /\ Loop!Asked \in Quiet
        /\ \A n \in 1 .. 4 : Loop!Result(<<0, n>>) \in Quiet
        /\ Loop!Assistant(<<0>>, <<<<0, 1>>, <<0, 2>>>>) \in Quiet
        /\ Loop!Assistant(<<0>>, <<<<0, 3>>, <<0, 4>>>>) \in Quiet
        /\ Loop!Assistant(<<0>>, <<>>) \in Quiet
    <3>1. /\ \A n \in 1 .. 4 : <<0, n>> \in C
          /\ <<<<0, 1>>, <<0, 2>>>> \in Seq(C) /\ <<<<0, 3>>, <<0, 4>>>> \in Seq(C)
          /\ <<>> \in Seq(C)
      <4>1. \A n \in 1 .. 4 : <<0, n>> \in C
        BY <1>1
      <4> HIDE DEF C
      <4> QED
        BY <4>1
    <3> QED
      BY <3>1, LoopRows
  <2> HIDE DEF Quiet
  <2>2. Loop!Before \in Seq(Quiet)
    BY <2>1 DEF Loop!Before
  <2>3. /\ Append(Loop!Before, Loop!Asked) \in Seq(Quiet)
        /\ Loop!Before \o <<Loop!Asked, Loop!Assistant(<<0>>, <<>>)>> \in Seq(Quiet)
    BY <2>1, <2>2
  <2>4. rows = Append(Loop!Before, Loop!Asked)
        \/ rows = Loop!Before \o <<Loop!Asked, Loop!Assistant(<<0>>, <<>>)>>
    BY DEF Loop!Init
  <2> QED
    BY <2>3, <2>4
<1>3. rows \in Seq(LoopRow) /\ Loop!Mine(rows) = <<>>
  BY <1>2, QuietRows
<1>4. /\ modelCalls = 0 /\ abandoned = {} /\ streamed = <<>> /\ partial = <<>> /\ toRun = <<>>
      /\ place = "top" /\ how = "running"
  BY DEF Loop!Init
<1>5. LoopTypes
  BY <1>1, <1>3, <1>4 DEF LoopTypes
<1>6. PiecesBefore
  BY <1>4 DEF PiecesBefore
<1>7. TextHeld
  BY <1>3, <1>4, WithoutNone DEF TextHeld, Wanted
<1> QED
  BY <1>4, <1>5, <1>6, <1>7 DEF LoopIInv, PartialKept, Loop!AnswerIsStored

(* A piece that is left out. *)
LEMMA WithoutGone ==
  ASSUME NEW T, streamed \in Seq(T), modelCalls \in T
  PROVE  \A U : modelCalls \in U =>
           Loop!Without(Append(streamed, modelCalls), U) = Loop!Without(streamed, U)
<1>1. ASSUME NEW U
      PROVE  /\ modelCalls \in U =>
                  Loop!Without(Append(streamed, modelCalls), U) = Loop!Without(streamed, U)
             /\ modelCalls \notin U =>
                  Loop!Without(Append(streamed, modelCalls), U) =
                    Loop!Without(streamed, U) \o <<modelCalls>>
  BY WithoutNext
<1> QED
  BY <1>1

(* A step that adds no text: rows with nothing to say, and the end with an error. *)
LEMMA QuietStep ==
  ASSUME LoopIInv, place # "returned",
         rows' \in Seq(LoopRow), Loop!Mine(rows') = Loop!Mine(rows),
         UNCHANGED <<modelCalls, partial, streamed, abandoned>>, kept' = kept,
         toRun' \in Seq((0 .. MaxCalls) \X (1 .. 4)),
         place' \in {"top", "call", "tools", "after", "returned"}, place' = "call" => place = "call",
         IF place' = "returned" THEN how' = "failed" ELSE how' = how
  PROVE  LoopIInv'
<1>1. LoopTypes'
  BY DEF LoopIInv, LoopTypes
<1>2. PiecesBefore'
  BY DEF LoopIInv, PiecesBefore
<1>3. TextHeld'
  BY DEF LoopIInv, TextHeld, Wanted
<1>4. PartialKept'
  BY Zenon DEF LoopIInv, PartialKept
<1>5. Loop!AnswerIsStored'
  BY DEF LoopIInv, TextHeld, Loop!AnswerIsStored
<1> QED
  BY <1>1, <1>2, <1>3, <1>4, <1>5 DEF LoopIInv

(* A piece of text: what is streamed grows by it, unless it is abandoned. *)
LEMMA PieceStreams ==
  ASSUME LoopIInv, place = "call", NEW said \in Loop!Written
  PROVE  /\ said \in Seq(1 .. MaxCalls) /\ Loop!Range(said) \subseteq 1 .. modelCalls
         /\ streamed \o said \in Seq(1 .. MaxCalls)
         /\ \A i \in DOMAIN (streamed \o said) : (streamed \o said)[i] <= modelCalls
         /\ Loop!Without(streamed \o said, abandoned) = Wanted \o said
         /\ Loop!Without(streamed \o said, abandoned \cup Loop!Range(said)) = Wanted
         /\ partial \o said \in Seq(1 .. MaxCalls)
         /\ Wanted \o said = Loop!Mine(rows) \o (partial \o said)
<1> DEFINE T == 1 .. MaxCalls  M == 0 .. MaxCalls
<1>1. /\ streamed \in Seq(T) /\ partial \in Seq(T) /\ modelCalls \in T /\ modelCalls \notin abandoned
      /\ \A i \in DOMAIN streamed : streamed[i] <= modelCalls /\ streamed[i] # modelCalls
      /\ Loop!Mine(rows) \o partial = Wanted /\ rows \in Seq(LoopRow)
  BY LoopAssumption DEF LoopIInv, LoopTypes, PiecesBefore, TextHeld
<1>2. said \in Seq(T)
  <2> HIDE DEF T
  <2>1. <<>> \in Seq(T) /\ <<modelCalls>> \in Seq(T)
    BY <1>1
  <2> QED
    BY <2>1 DEF Loop!Written
<1>3. Wanted \in Seq(T)
  <2> HIDE DEF T
  <2> QED
    BY <1>1, WithoutNext DEF Wanted
<1>4. Loop!Mine(rows) \in Seq(M)
  <2>1. Loop!Asked \in LoopRow
    BY LoopRows
  <2> QED
    BY <1>1, <2>1, MineNext
<1>5. Wanted \o said = Loop!Mine(rows) \o (partial \o said)
  <2>1. partial \in Seq(M) /\ said \in Seq(M)
    <3>1. T \subseteq M
      OBVIOUS
    <3> HIDE DEF T, M
    <3> QED
      BY <1>1, <1>2, <3>1, SeqMonotonic
  <2> HIDE DEF M, T
  <2> DEFINE u == Loop!Mine(rows)
  <2>2. u \in Seq(M) /\ Wanted = u \o partial
    BY <1>1, <1>4
  <2> HIDE DEF u
  <2>3. (u \o partial) \o said = u \o (partial \o said)
    BY <2>1, <2>2, ConcatAssociative
  <2> QED
    BY <2>2, <2>3 DEF u
<1>6. partial \o said \in Seq(T) /\ streamed \o said \in Seq(T)
  <2> HIDE DEF T
  <2> QED
    BY <1>1, <1>2
<1>7. CASE said = <<>>
  <2>1. streamed \o said = streamed /\ Wanted \o said = Wanted
    <3> HIDE DEF T
    <3> QED
      BY <1>1, <1>3, <1>7, ConcatEmptySeq
  <2>2. Loop!Range(said) = {}
    BY <1>7 DEF Loop!Range
  <2> QED
    BY <1>1, <1>2, <1>5, <1>6, <2>1, <2>2 DEF Wanted
<1>8. CASE said = <<modelCalls>>
  <2>1. Loop!Range(said) = {modelCalls}
    BY <1>8 DEF Loop!Range
  <2>2. streamed \o said = Append(streamed, modelCalls)
    <3> HIDE DEF T
    <3> QED
      BY <1>1, <1>8, AppendIsConcat
  <2>3. Loop!Without(Append(streamed, modelCalls), abandoned) = Wanted \o said
    <3> HIDE DEF T
    <3>1. streamed \in Seq(T) /\ modelCalls \in T
      BY <1>1
    <3>2. \A U : modelCalls \notin U =>
            Loop!Without(Append(streamed, modelCalls), U) = Loop!Without(streamed, U) \o <<modelCalls>>
      BY <3>1, WithoutNext
    <3> QED
      BY <1>1, <1>8, <3>2 DEF Wanted
  <2>4. Loop!Without(Append(streamed, modelCalls), abandoned \cup {modelCalls}) = Wanted
    <3> HIDE DEF T
    <3>1. Loop!Without(streamed, abandoned \cup {modelCalls}) = Wanted
      BY <1>1, WithoutMore DEF Wanted
    <3> DEFINE S == abandoned \cup {modelCalls}
    <3>2. modelCalls \in S
      OBVIOUS
    <3> HIDE DEF S
    <3>3. Loop!Without(Append(streamed, modelCalls), S) = Loop!Without(streamed, S)
      <4>1. streamed \in Seq(T) /\ modelCalls \in T
        BY <1>1
      <4>2. \A U : modelCalls \in U =>
              Loop!Without(Append(streamed, modelCalls), U) = Loop!Without(streamed, U)
        BY <4>1, WithoutGone
      <4> QED
        BY <3>2, <4>2
    <3> QED
      BY <3>1, <3>3 DEF S
  <2>5. \A i \in DOMAIN Append(streamed, modelCalls) : Append(streamed, modelCalls)[i] <= modelCalls
    BY <1>1
  <2>6. {modelCalls} \subseteq 1 .. modelCalls
    BY <1>1
  <2> QED
    BY <1>2, <1>5, <1>6, <2>1, <2>2, <2>3, <2>4, <2>5, <2>6
<1> QED
  BY <1>7, <1>8 DEF Loop!Written

(* A step of a call under way: its text is streamed and kept, or the turn fails. *)
LEMMA StreamStep ==
  ASSUME LoopIInv, place = "call", NEW said \in Loop!Written,
         streamed' = streamed \o said, UNCHANGED <<abandoned, modelCalls>>,
         rows' \in Seq(LoopRow), partial' \in Seq(1 .. MaxCalls), PartialKept',
         toRun' \in Seq((0 .. MaxCalls) \X (1 .. 4)), place' \in {"top", "tools", "after", "returned"},
         \/ place' = "returned" /\ how' = "failed"
         \/ /\ Loop!Mine(rows') \o partial' = Loop!Mine(rows) \o (partial \o said)
            /\ \/ place' # "returned" /\ how' = how
               \/ place' = "returned" /\ how' = "answer" /\ partial' = <<>>
  PROVE  LoopIInv'
<1>1. /\ streamed' \in Seq(1 .. MaxCalls)
      /\ \A i \in DOMAIN streamed' : streamed'[i] <= modelCalls
      /\ Wanted' = Loop!Mine(rows) \o (partial \o said)
  BY PieceStreams DEF Wanted
<1>2. LoopTypes'
  BY <1>1 DEF LoopIInv, LoopTypes
<1>3. PiecesBefore'
  BY <1>1 DEF PiecesBefore
<1>4. TextHeld'
  BY <1>1 DEF LoopIInv, TextHeld
<1>5. Loop!AnswerIsStored'
  <2>1. CASE how' = "answer"
    <3>1. Loop!Mine(rows') \o <<>> = Wanted'
      BY <1>1, <2>1 DEF LoopIInv, TextHeld
    <3>2. Loop!Mine(rows') \in Seq(0 .. MaxCalls)
      <4>1. Loop!Asked \in LoopRow
        BY LoopRows
      <4> QED
        BY <4>1, MineNext
    <3> DEFINE u == Loop!Mine(rows')  T == 0 .. MaxCalls
    <3>3. u \in Seq(T)
      BY <3>2
    <3> HIDE DEF u, T
    <3>4. u \o <<>> = u
      BY <3>3, ConcatEmptySeq
    <3> QED
      BY <3>1, <3>4 DEF u, Loop!AnswerIsStored, Wanted
  <2>2. CASE how' # "answer"
    BY <2>2 DEF LoopIInv, TextHeld, Loop!AnswerIsStored
  <2> QED
    BY <2>1, <2>2
<1> QED
  BY <1>2, <1>3, <1>4, <1>5 DEF LoopIInv
-----------------------------------------------------------------------------
(* Messages that join, commands that end, tools that run, a reply with nothing in it. *)
LEMMA QuietSteps ==
  ASSUME LoopIInv, Loop!Steer \/ Loop!BackgroundEnds \/ Loop!Empty \/ Loop!RunTool
  PROVE  LoopIInv'
<1> DEFINE C == (0 .. MaxCalls) \X (1 .. 4)
<1>1. /\ rows \in Seq(LoopRow) /\ toRun \in Seq(C) /\ place \in {"top", "call", "tools", "after", "returned"}
  BY DEF LoopIInv, LoopTypes
<1>2. Append(rows, Loop!Asked) \in Seq(LoopRow) /\ Loop!Mine(Append(rows, Loop!Asked)) = Loop!Mine(rows)
  BY <1>1, LoopRows, QuietRow
<1> HIDE DEF C
<1>3. CASE Loop!Steer \/ Loop!BackgroundEnds \/ Loop!Empty
  <2>1. /\ place # "returned" /\ rows' \in {rows, Append(rows, Loop!Asked)}
        /\ UNCHANGED <<modelCalls, partial, streamed, abandoned, toRun>>
        /\ \/ place' = "returned" /\ how' = "failed"
           \/ place' = place /\ how' = how
    BY <1>3 DEF Loop!Steer, Loop!BackgroundEnds, Loop!Empty, Loop!Ends, Loop!Goes, Loop!partialVars,
                Loop!viewVars
  <2>2. kept' = kept
    BY <1>3, Zenon DEF Loop!Steer, Loop!BackgroundEnds, Loop!Empty, Loop!partialVars
  <2>3. rows' \in Seq(LoopRow) /\ Loop!Mine(rows') = Loop!Mine(rows)
    BY <1>1, <1>2, <2>1
  <2>4. /\ toRun' \in Seq(C) /\ place' \in {"top", "call", "tools", "after", "returned"}
        /\ (place' = "call" => place = "call")
        /\ IF place' = "returned" THEN how' = "failed" ELSE how' = how
    BY <1>1, <2>1
  <2> QED
    BY <2>1, <2>2, <2>3, <2>4, QuietStep DEF C
<1>4. CASE Loop!RunTool
  <2>1. /\ place = "tools" /\ toRun # <<>>
        /\ UNCHANGED <<modelCalls, partial, streamed, abandoned>>
        /\ rows' \in {rows, Append(rows, Loop!Result(toRun[1])), rows \o <<Loop!Result(toRun[1]), Loop!Asked>>}
        /\ toRun' \in {Tail(toRun), <<>>}
        /\ \/ place' = "returned" /\ how' = "failed"
           \/ place' \in {"top", "tools"} /\ how' = how
    BY <1>4 DEF Loop!RunTool, Loop!Ends, Loop!Goes, Loop!partialVars
  <2>2. kept' = kept
    BY <1>4, Zenon DEF Loop!RunTool, Loop!partialVars
  <2>3. toRun[1] \in C /\ toRun' \in Seq(C)
    <3>1. toRun[1] \in C /\ Tail(toRun) \in Seq(C) /\ <<>> \in Seq(C)
      BY <1>1, <2>1
    <3> QED
      BY <2>1, <3>1
  <2> DEFINE r == Loop!Result(toRun[1])
  <2>4. r \in LoopRow /\ Says(r) = <<>> /\ Loop!Asked \in LoopRow /\ Says(Loop!Asked) = <<>>
    BY <2>3, LoopRows DEF C
  <2> HIDE DEF r
  <2>5. Append(rows, r) \in Seq(LoopRow) /\ Loop!Mine(Append(rows, r)) = Loop!Mine(rows)
    BY <1>1, <2>4, QuietRow
  <2>6. /\ Append(Append(rows, r), Loop!Asked) \in Seq(LoopRow)
        /\ Loop!Mine(Append(Append(rows, r), Loop!Asked)) = Loop!Mine(rows)
    BY <2>4, <2>5, QuietRow
  <2>7. rows \o <<r, Loop!Asked>> = Append(Append(rows, r), Loop!Asked)
    BY <1>1, <2>4
  <2>8. rows' \in Seq(LoopRow) /\ Loop!Mine(rows') = Loop!Mine(rows)
    BY <1>1, <2>1, <2>5, <2>6, <2>7 DEF r
  <2> QED
    BY <2>1, <2>2, <2>3, <2>8, QuietStep DEF C
<1> QED
  BY <1>3, <1>4

LEMMA RequestKeeps ==
  ASSUME LoopIInv, Loop!Request
  PROVE  LoopIInv'
<1>1. /\ place = "top" /\ modelCalls < MaxCalls /\ modelCalls' = modelCalls + 1
      /\ place' = "call" /\ how' = how
      /\ UNCHANGED <<rows, partial, streamed, abandoned, toRun>>
  BY DEF Loop!Request, Loop!Goes, Loop!partialVars
<1>2. kept' = kept
  BY Zenon DEF Loop!Request, Loop!partialVars
<1>3. modelCalls \in Nat /\ MaxCalls \in Nat
  BY LoopAssumption DEF LoopIInv, LoopTypes
<1>4. LoopTypes'
  BY <1>1, <1>3 DEF LoopIInv, LoopTypes
<1>5. PiecesBefore'
  <2>1. \A i \in DOMAIN streamed : streamed[i] \in Nat
    <3> DEFINE T == 1 .. MaxCalls
    <3>1. streamed \in Seq(T) /\ T \subseteq Nat
      BY DEF LoopIInv, LoopTypes
    <3> HIDE DEF T
    <3>2. DOMAIN streamed = 1 .. Len(streamed) /\ \A i \in 1 .. Len(streamed) : streamed[i] \in T
      BY <3>1
    <3> QED
      BY <3>1, <3>2
  <2> QED
    BY <1>1, <1>3, <2>1 DEF LoopIInv, PiecesBefore, LoopTypes
<1>6. TextHeld'
  BY <1>1 DEF LoopIInv, TextHeld, Wanted
<1>7. PartialKept'
  BY <1>1, <1>2, Zenon DEF LoopIInv, PartialKept
<1>8. Loop!AnswerIsStored'
  BY <1>1 DEF LoopIInv, TextHeld, Loop!AnswerIsStored
<1> QED
  BY <1>4, <1>5, <1>6, <1>7, <1>8 DEF LoopIInv

LEMMA StripKeeps ==
  ASSUME LoopIInv, Loop!StripImages
  PROVE  LoopIInv'
<1>1. PICK said \in Loop!Written :
        streamed' = streamed \o said /\ abandoned' = abandoned \cup Loop!Range(said)
  BY DEF Loop!StripImages
<1>2. /\ place = "call" /\ modelCalls < MaxCalls /\ modelCalls' = modelCalls + 1
      /\ UNCHANGED <<rows, partial, toRun, place, how>>
  BY DEF Loop!StripImages, Loop!partialVars, Loop!viewVars
<1>3. kept' = kept
  BY Zenon DEF Loop!StripImages, Loop!partialVars
<1>4. modelCalls \in Nat /\ MaxCalls \in Nat /\ abandoned \subseteq 1 .. modelCalls
  BY LoopAssumption DEF LoopIInv, LoopTypes
<1>5. /\ streamed' \in Seq(1 .. MaxCalls) /\ \A i \in DOMAIN streamed' : streamed'[i] <= modelCalls
      /\ abandoned' \subseteq 1 .. modelCalls /\ Wanted' = Wanted
  BY <1>1, <1>2, <1>4, PieceStreams DEF Wanted
<1>6. LoopTypes'
  BY <1>2, <1>4, <1>5 DEF LoopIInv, LoopTypes
<1>7. PiecesBefore'
  <2>1. \A i \in DOMAIN streamed' : streamed'[i] \in Nat
    <3> DEFINE T == 1 .. MaxCalls
    <3>1. streamed' \in Seq(T) /\ T \subseteq Nat
      BY <1>5
    <3> HIDE DEF T
    <3>2. DOMAIN streamed' = 1 .. Len(streamed') /\ \A i \in 1 .. Len(streamed') : streamed'[i] \in T
      BY <3>1
    <3> QED
      BY <3>1, <3>2
  <2> QED
    BY <1>2, <1>4, <1>5, <2>1 DEF PiecesBefore
<1>8. TextHeld'
  BY <1>2, <1>5 DEF LoopIInv, TextHeld
<1>9. PartialKept'
  BY <1>2, <1>3, Zenon DEF LoopIInv, PartialKept
<1>10. Loop!AnswerIsStored'
  BY <1>2 DEF LoopIInv, TextHeld, Loop!AnswerIsStored
<1> QED
  BY <1>6, <1>7, <1>8, <1>9, <1>10 DEF LoopIInv

(* The stream drops, or the reply is cut off: what came of it is kept for the next. *)
LEMMA BrokenKeeps ==
  ASSUME LoopIInv, Loop!Drops \/ Loop!CutOff
  PROVE  LoopIInv'
<1> DEFINE C == (0 .. MaxCalls) \X (1 .. 4)
<1>1. /\ rows \in Seq(LoopRow) /\ toRun \in Seq(C) /\ partial \in Seq(1 .. MaxCalls)
  BY DEF LoopIInv, LoopTypes
<1>2. CASE Loop!Drops
  <2>1. /\ place = "call" /\ UNCHANGED <<toRun, modelCalls, abandoned>>
    BY <1>2 DEF Loop!Drops
  <2>2. PICK said \in Loop!Written :
          /\ streamed' = streamed \o said
          /\ \/ /\ partial' = partial \o said /\ kept' = TRUE
                /\ place' = "top" /\ how' = how /\ rows' = rows
             \/ /\ \E thinking \in BOOLEAN : Loop!KeepText(said, thinking)
                /\ place' = "returned" /\ how' = "failed"
                /\ UNCHANGED Loop!partialVars
    BY <1>2 DEF Loop!Drops, Loop!ResumeFrom, Loop!Goes, Loop!Ends
  <2>3. said \in Seq(1 .. MaxCalls) /\ partial \o said \in Seq(1 .. MaxCalls)
    BY <2>1, PieceStreams
  <2>4. CASE partial' = partial \o said /\ kept' = TRUE /\ place' = "top" /\ how' = how /\ rows' = rows
    <3>1. PartialKept'
      BY <2>4, Zenon DEF PartialKept
    <3> HIDE DEF C
    <3> QED
      BY <1>1, <2>1, <2>2, <2>3, <2>4, <3>1, StreamStep DEF C
  <2>5. CASE /\ \E thinking \in BOOLEAN : Loop!KeepText(said, thinking)
             /\ place' = "returned" /\ how' = "failed"
             /\ UNCHANGED Loop!partialVars
    <3>1. PartialKept'
      BY <2>5, Zenon DEF LoopIInv, PartialKept, Loop!partialVars
    <3>2. partial' = partial
      BY <2>5 DEF Loop!partialVars
    <3>3. Loop!Assistant(said, <<>>) \in LoopRow
      <4>1. <<>> \in Seq(C)
        OBVIOUS
      <4> QED
        BY <2>3, <4>1, LoopRows
    <3>4. rows' \in {rows, Append(rows, Loop!Assistant(said, <<>>))}
      BY <2>5 DEF Loop!KeepText
    <3>5. rows' \in Seq(LoopRow)
      <4>1. rows \in Seq(LoopRow) /\ Append(rows, Loop!Assistant(said, <<>>)) \in Seq(LoopRow)
        BY <1>1, <3>3, AppendProperties
      <4> QED
        BY <3>4, <4>1
    <3> HIDE DEF C
    <3> QED
      BY <1>1, <2>1, <2>2, <2>5, <3>1, <3>2, <3>5, StreamStep DEF C
  <2> QED
    BY <2>2, <2>4, <2>5
<1>3. CASE Loop!CutOff
  <2>1. /\ place = "call" /\ UNCHANGED <<rows, toRun, modelCalls, abandoned>>
    BY <1>3 DEF Loop!CutOff
  <2>2. PICK said \in Loop!Written :
          /\ streamed' = streamed \o said /\ place' \in {"top", "after"} /\ how' = how
          /\ \/ partial' = partial \o said /\ kept' = TRUE
             \/ said = <<>> /\ UNCHANGED Loop!partialVars
    BY <1>3 DEF Loop!CutOff, Loop!ResumeFrom, Loop!Goes
  <2>3. partial \o said \in Seq(1 .. MaxCalls)
    BY <2>1, PieceStreams
  <2>4. partial' = partial \o said
    <3>1. CASE partial' = partial \o said
      BY <3>1
    <3>2. CASE said = <<>> /\ UNCHANGED Loop!partialVars
      BY <1>1, <3>2, ConcatEmptySeq DEF Loop!partialVars
    <3> QED
      BY <2>2, <3>1, <3>2
  <2>5. PartialKept'
    <3>1. CASE kept' = TRUE
      BY <3>1, Zenon DEF PartialKept
    <3>2. CASE UNCHANGED Loop!partialVars
      BY <3>2, Zenon DEF LoopIInv, PartialKept, Loop!partialVars
    <3> QED
      BY <2>2, <3>1, <3>2
  <2> HIDE DEF C
  <2> QED
    BY <1>1, <2>1, <2>2, <2>3, <2>4, <2>5, StreamStep DEF C
<1> QED
  BY <1>2, <1>3

(* A reply that counts has one row, for it and for what was kept before it. *)
LEMMA ReplyKeeps ==
  ASSUME LoopIInv, place = "call", NEW said \in Loop!Written,
         NEW made \in Seq((0 .. MaxCalls) \X (1 .. 4)), NEW cut \in Seq((0 .. MaxCalls) \X (1 .. 4)),
         Loop!Reply(said, made, cut)
  PROVE  LoopIInv'
<1> DEFINE C == (0 .. MaxCalls) \X (1 .. 4)
           reply == Loop!Assistant(partial \o said, made \o cut)
<1>1. /\ rows \in Seq(LoopRow) /\ toRun \in Seq(C) /\ partial \in Seq(1 .. MaxCalls)
  BY DEF LoopIInv, LoopTypes
<1>2. streamed' = streamed \o said /\ UNCHANGED <<modelCalls, abandoned>>
  BY DEF Loop!Reply
<1>3. \/ /\ rows' = Append(rows, reply) /\ toRun' = made
         /\ partial' = <<>>
         /\ \/ place' \in {"top", "tools"} /\ how' = how
            \/ place' = "returned" /\ how' = "answer"
      \/ /\ place' = "returned" /\ how' = "failed"
         /\ UNCHANGED <<rows, toRun, partial, kept>>
  BY DEF Loop!Reply, Loop!Folded, Loop!Goes, Loop!Ends, Loop!partialVars
<1> HIDE DEF reply
<1>4. CASE /\ rows' = Append(rows, reply) /\ toRun' = made /\ partial' = <<>>
           /\ \/ place' \in {"top", "tools"} /\ how' = how
              \/ place' = "returned" /\ how' = "answer"
  <2>1. partial \o said \in Seq(1 .. MaxCalls) /\ made \o cut \in Seq(C)
    <3>1. made \o cut \in Seq(C)
      <4> HIDE DEF C
      <4>1. made \in Seq(C) /\ cut \in Seq(C)
        BY DEF C
      <4> QED
        BY <4>1
    <3> QED
      BY <3>1, PieceStreams
  <2>2. reply \in LoopRow /\ Says(reply) = partial \o said
    BY <2>1, LoopRows DEF reply
  <2>3. Append(rows, reply) \in Seq(LoopRow) /\ Loop!Mine(Append(rows, reply)) = Loop!Mine(rows) \o (partial \o said)
    <3>1. /\ Append(rows, reply) \in Seq(LoopRow)
          /\ Loop!Mine(Append(rows, reply)) = Loop!Mine(rows) \o Says(reply)
      BY <1>1, <2>2, MineNext, AppendProperties
    <3> QED
      BY <2>2, <3>1
  <2>4. Loop!Mine(rows') \o partial' = Loop!Mine(rows) \o (partial \o said)
    <3> DEFINE u == Loop!Mine(Append(rows, reply))  T == 0 .. MaxCalls
    <3>1. u \in Seq(T)
      BY <2>2, <2>3, MineNext
    <3> HIDE DEF u, T
    <3>2. u \o <<>> = u
      BY <3>1, ConcatEmptySeq
    <3> QED
      BY <1>4, <2>3, <3>2 DEF u
  <2>5. PartialKept'
    BY <1>4 DEF PartialKept
  <2>6. partial' \in Seq(1 .. MaxCalls)
    BY <1>4
  <2> QED
    BY <1>2, <1>4, <2>3, <2>4, <2>5, <2>6, StreamStep
<1>5. CASE /\ place' = "returned" /\ how' = "failed"
           /\ UNCHANGED <<rows, toRun, partial, kept>>
  <2>1. PartialKept'
    BY <1>5, Zenon DEF LoopIInv, PartialKept
  <2> QED
    BY <1>1, <1>2, <1>5, <2>1, StreamStep
<1> QED
  BY <1>3, <1>4, <1>5

LEMMA RepliesKeep ==
  ASSUME LoopIInv, Loop!Replies
  PROVE  LoopIInv'
<1> DEFINE C == (0 .. MaxCalls) \X (1 .. 4)
<1>1. place = "call"
  BY DEF Loop!Replies
<1>2. \A n \in 1 .. 4 : Loop!Call(n) \in C
  BY DEF Loop!Call, LoopIInv, LoopTypes
<1> HIDE DEF C
<1>3. /\ <<>> \in Seq(C) /\ <<Loop!Call(1)>> \in Seq(C) /\ <<Loop!Call(2)>> \in Seq(C)
      /\ <<Loop!Call(1), Loop!Call(2)>> \in Seq(C)
  BY <1>2
<1>4. PICK said \in Loop!Written, made \in Seq(C), cut \in Seq(C) : Loop!Reply(said, made, cut)
  BY <1>3 DEF Loop!Replies
<1> QED
  BY <1>1, <1>4, ReplyKeeps DEF C

(* The turn gives up: what was kept is the row. *)
LEMMA KeepKeeps ==
  ASSUME LoopIInv, Loop!KeepPartial
  PROVE  LoopIInv'
<1> DEFINE C == (0 .. MaxCalls) \X (1 .. 4)
           reply == Loop!Assistant(partial, <<>>)
<1>1. /\ rows \in Seq(LoopRow) /\ partial \in Seq(1 .. MaxCalls)
      /\ Loop!Mine(rows) \o partial = Wanted
  BY DEF LoopIInv, LoopTypes, TextHeld, Loop!KeepPartial
<1>2. /\ place' = "returned" /\ how' = "kept"
      /\ UNCHANGED <<modelCalls, abandoned, streamed, partial, toRun>>
  BY DEF Loop!KeepPartial, Loop!Ends, Loop!partialVars
<1>3. reply \in LoopRow /\ Says(reply) = partial
  <2>1. <<>> \in Seq(C)
    OBVIOUS
  <2> QED
    BY <1>1, <2>1, LoopRows
<1> HIDE DEF reply
<1>4. Append(rows, reply) \in Seq(LoopRow) /\ Loop!Mine(Append(rows, reply)) = Wanted
  <2>1. /\ Append(rows, reply) \in Seq(LoopRow)
        /\ Loop!Mine(Append(rows, reply)) = Loop!Mine(rows) \o Says(reply)
    BY <1>1, <1>3, MineNext, AppendProperties
  <2> QED
    BY <1>1, <1>3, <2>1
<1>5. ~kept => Loop!Mine(rows) = Wanted
  <2>1. SUFFICES ASSUME ~kept
                 PROVE  Loop!Mine(rows) = Wanted
    OBVIOUS
  <2>2. partial = <<>>
    BY <2>1, Zenon DEF LoopIInv, PartialKept
  <2> DEFINE u == Loop!Mine(rows)  T == 0 .. MaxCalls
  <2>3. u \in Seq(T)
    BY <1>1, <1>3, MineNext
  <2> HIDE DEF u, T
  <2>4. u \o <<>> = u
    BY <2>3, ConcatEmptySeq
  <2> QED
    BY <1>1, <2>2, <2>4 DEF u
<1>6. rows' = rows \/ rows' = Append(rows, reply)
  BY DEF Loop!KeepPartial, reply
<1>7. ~saved' => Loop!Mine(rows') = Wanted'
  <2>1. Wanted' = Wanted
    BY <1>2 DEF Wanted
  <2>2. saved' = saved
    BY Zenon DEF Loop!KeepPartial
  <2>3. rows' = IF ~saved /\ kept THEN Append(rows, reply) ELSE rows
    BY DEF Loop!KeepPartial, reply
  <2>4. CASE kept
    <3>1. ~saved => rows' = Append(rows, reply)
      BY <2>3, <2>4, Zenon
    <3> QED
      BY <1>4, <2>1, <2>2, <3>1, Zenon
  <2>5. CASE ~kept
    <3>1. rows' = rows
      BY <2>3, <2>5, Zenon
    <3> QED
      BY <1>5, <2>1, <2>5, <3>1, Zenon
  <2> QED
    BY <2>4, <2>5
<1>8. LoopTypes'
  BY <1>1, <1>2, <1>4, <1>6 DEF LoopIInv, LoopTypes
<1>9. PiecesBefore'
  BY <1>2 DEF LoopIInv, PiecesBefore
<1>10. TextHeld'
  BY <1>2 DEF TextHeld
<1>11. PartialKept'
  <2>1. kept' = kept /\ partial' = partial
    BY Zenon DEF Loop!KeepPartial, Loop!partialVars
  <2> QED
    BY <2>1, Zenon DEF LoopIInv, PartialKept
<1>12. Loop!AnswerIsStored'
  BY <1>2, <1>7, Zenon DEF Loop!AnswerIsStored, Wanted
<1> QED
  BY <1>8, <1>9, <1>10, <1>11, <1>12, Zenon DEF LoopIInv

LEMMA LoopStep == LoopIInv /\ [Loop!Next]_loopVars => LoopIInv'
<1> SUFFICES ASSUME LoopIInv, [Loop!Next]_loopVars
             PROVE  LoopIInv'
  OBVIOUS
<1>1. CASE Loop!Next
  BY <1>1, QuietSteps, RequestKeeps, StripKeeps, BrokenKeeps, RepliesKeep, KeepKeeps DEF Loop!Next
<1>2. CASE UNCHANGED loopVars
  <2>1. UNCHANGED <<rows, modelCalls, abandoned, streamed, partial, toRun, place, how>>
    BY <1>2 DEF loopVars
  <2>2. kept' = kept /\ saved' = saved
    BY <1>2, Zenon DEF loopVars
  <2>3. LoopTypes' /\ PiecesBefore'
    BY <2>1 DEF LoopIInv, LoopTypes, PiecesBefore
  <2>4. TextHeld'
    BY <2>1 DEF LoopIInv, TextHeld, Wanted
  <2>5. PartialKept'
    BY <2>1, <2>2, Zenon DEF LoopIInv, PartialKept
  <2>6. Loop!AnswerIsStored'
    BY <2>1, <2>2, Zenon DEF LoopIInv, Loop!AnswerIsStored
  <2> QED
    BY <2>3, <2>4, <2>5, <2>6, Zenon DEF LoopIInv
<1> QED
  BY <1>1, <1>2

(* RunChat and resumeFrom: for any number of model calls, resumes, joined messages and
   background results, when a turn ends with an answer, or gives up before a round has a
   row, the rows say every piece of text the user saw, once and in order, but for a reply
   that was asked for again without its pictures. *)
THEOREM AnswerAlwaysStored == PartsSpec => []AnswerIsStored
<1>1. PartsInit => LoopIInv
  BY LoopInit DEF PartsInit
<1>2. LoopIInv /\ [PartsNext]_vars => LoopIInv'
  <2> SUFFICES ASSUME LoopIInv, [PartsNext]_vars
               PROVE  LoopIInv'
    OBVIOUS
  <2>1. CASE InLoop(Loop!Next)
    BY <2>1, LoopStep DEF InLoop
  <2>2. CASE UNCHANGED loopVars
    BY <2>2, LoopStep
  <2> QED
    BY <2>1, <2>2 DEF PartsNext, InJobs, InAsks, InModel, vars
<1>3. LoopIInv => AnswerIsStored
  BY DEF LoopIInv, AnswerIsStored
<1> QED
  BY <1>1, <1>2, <1>3, PTL DEF PartsSpec
=============================================================================
