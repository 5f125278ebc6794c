\* Every request, against handlers that take steps.
CONSTANTS
  MaxMessages = 3
  Handlers = {h1, h2}
  Ops <- AllOps
  MaxResumes = 1
  MaxReruns = 1
  MaxCrashes = 1
  MaxFaults = 1
  None = None
SPECIFICATION Spec
INVARIANTS
  StoreMirrorsQueue
  NothingLost
  NeverSentTwice
  DeletedStaysDeleted
  EditingIsHeld
CONSTRAINT Explored
SYMMETRY Symmetry
CHECK_DEADLOCK FALSE
