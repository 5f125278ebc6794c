\* More sessions than the cap lets one user run, and a run per session: the cap
\* refuses, slots of both users interleave, a stop meets every phase of a run.
CONSTANTS
  Sessions = {s1, s2, s3}
  Users = {u1, u2}
  Runs = {r1, r2, r3}
  MaxRuns = 2
  MaxStops = 1
  None = None

SPECIFICATION FairSpec

INVARIANTS
  SlotAccounting
  CapRespected
  SingleFlight
  CancelTargetsRun

PROPERTY StoppedRunEnds
