\* A ring of two that wraps, channels of three that fill up.
CONSTANTS
  Watchers = {w1, w2}
  Jobs = {job}
  Turn = turn
  HistSize = 2
  ChanSize = 3
  MaxEvents = 5
SPECIFICATION FairSpec
PROPERTIES
  ImplementsLog
  WatchersReturn
CHECK_DEADLOCK FALSE
