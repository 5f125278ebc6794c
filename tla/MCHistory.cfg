\* Two sessions and a request beside a run.
CONSTANTS
  MaxSids = 2
  MaxRuns = 1
  Clients = {q1}
  MaxIds = 5
SPECIFICATION Spec
CONSTRAINT Explored
INVARIANTS
  ViewIsTranscript
  RowsKept
CHECK_DEADLOCK FALSE
