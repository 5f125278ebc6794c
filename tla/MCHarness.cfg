\* The connection with two callers, a turn with three events, four plain or changed turns.
CONSTANTS
  Callers = {a, b}
  Requests = {r}
  MaxCalls = 2
  MaxNotes = 1
  NoCaller = NoCaller
  Steers = {s1}
  Pieces = {x}
  MaxEvents = 3
  TurnOps = {"fresh", "retry", "continue", "steer", "screenshot", "fail"}
  MaxSent = 3
  MaxConvs = 3
  MaxTurns = 4
  MaxShots = 1
SPECIFICATION PartsSpec
INVARIANTS
  CallsMatched
  TurnKept
  ConversationKept
PROPERTY HarnessReturns
CHECK_DEADLOCK FALSE
