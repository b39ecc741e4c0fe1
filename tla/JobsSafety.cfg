\* An open, a restore and a download under up to three keys, two slots, a crash or a
\* stop, and a write that raises.
CONSTANTS
  open = open
  restore = restore
  download = download
  coordinate = coordinate
  heavy = heavy
  w1 = w1
  w2 = w2
  MaxKeys = 3
  Requests = {open, restore, download}
  External = {open, restore}
  Restores = {restore}
  Lanes = {coordinate, heavy}
  LaneOf <- MCLaneOf
  Workers = {w1, w2}
  WorkerLane <- MCWorkerLane
  QueueLimit = 2
  MaxJobs = 3
  MaxRuns = 2
  MaxFaults = 1
SPECIFICATION FairSpec
CHECK_DEADLOCK FALSE
INVARIANT ActsOncePerKey
INVARIANT StatusTruthful
PROPERTY JobsEnd
