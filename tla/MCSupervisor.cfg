\* Two poisoned calls and two crashes against a budget of two.
CONSTANTS
  Callers = {c1, c2}
  MaxRestarts = 2
  MaxCrashes = 2
  None = None
SPECIFICATION FairSpec
INVARIANTS
  OneSidecar
  ConnIsCurrent
  RestartIsFresh
PROPERTIES
  GivesUpAfterBudget
  DeathIsAnswered
  RestartReturns
  NothingLeft
CHECK_DEADLOCK FALSE
