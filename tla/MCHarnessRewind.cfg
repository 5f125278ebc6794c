\* Retries and edits of plain turns, with no fault at all.
CONSTANTS
  Callers = {a, b}
  Requests = {r}
  MaxCalls = 2
  MaxNotes = 2
  NoCaller = NoCaller
  Steers = {s1}
  Pieces = {x}
  MaxEvents = 3
  TurnOps = {"fresh", "retry"}
  MaxSent = 3
  MaxConvs = 3
  MaxTurns = 4
  MaxShots = 1
SPECIFICATION PartsSpec
INVARIANTS
  RewoundToRows
CHECK_DEADLOCK FALSE
