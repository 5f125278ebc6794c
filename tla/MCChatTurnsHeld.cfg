\* The wait for a held message, and what follows its release.
CONSTANTS
  MaxMessages = 2
  Handlers = {h1}
  Ops <- HoldOps
  MaxResumes = 0
  MaxReruns = 1
  MaxCrashes = 0
  MaxFaults = 0
  None = None
SPECIFICATION Spec
INVARIANTS
  SentOnce

CHECK_DEADLOCK FALSE
