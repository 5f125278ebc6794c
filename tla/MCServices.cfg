\* Two commands of one session; two questions and two responders; three requests and pieces;
\* a turn of three model calls.
CONSTANTS
  Jobs = {j1, j2}
  Sessions = {s1}
  Asks = {q1, q2}
  Texts = {t1, t2}
  Responders = {h1, h2}
  chatRetries = 3
  MaxPieces = 3
  MaxCalls = 3
  MaxResumes = 1
  MaxJoined = 1
SPECIFICATION PartsSpec
CONSTRAINT Explored
INVARIANTS
  UpIsListed
  NoStaleCard
  StreamHolds
  AnswerIsStored
  RoundsStay
PROPERTY WaitsEnd
CHECK_DEADLOCK FALSE
