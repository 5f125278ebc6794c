\* Two callers and two processes of a server; three previews; two tabs of the settings, two
\* providers and keys; two tool calls; an extension and a skill of the user's beside a
\* bundled one of each, two requests; two sessions' turns on a file.
CONSTANTS
  Callers = {c1, c2}
  Versions = {v1, v2}
  MaxConns = 2
  Projects = {a, b, c}
  Cap = 2
  MaxPreviews = 3
  Sockets = {s1, s2, s3}
  Tabs = {t1, t2}
  Bases = {"x", "y"}
  MaxIds = 2
  MaxTyped = 2
  MaxPuts = 3
  Calls = {k1, k2}
  Paths = {p, q}
  MaxMarks = 3
  Own = {e}
  Bundled = {d}
  Changes = {r1, r2}
  MaxVersion = 2
  MaxChanges = 2
  MaxStarts = 2
  Market = m
  Bundle = k
  Handlers = {h1, h2}
  MaxAsked = 3
  MaxBoots = 2
  Sessions = {s1, s2}
  Files = {f}
  MaxWrites = 2
  MaxCommits = 2
  MaxPushes = 1
  MaxRequests = 3
SPECIFICATION PartsSpec
CONSTRAINT Explored
INVARIANTS
  ServersHeld
  PreviewsHeld
  WorkspaceHolds
  AddedHold
  RepoHolds
CHECK_DEADLOCK FALSE
