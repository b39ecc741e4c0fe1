\* A window and one that appears later, two jobs, an agent, and one each of
\* time-outs, late drains, failing recorders and changes of the policy.
CONSTANTS
  left = left
  right = right
  Windows = {left, right}
  Late = {right}
  Kinds = {"pause", "resume", "move"}
  MaxJobs = 2
  MaxAsks = 1
  MaxTimeouts = 1
  MaxHangs = 1
  MaxFaults = 1
  MaxChanges = 1
SPECIFICATION FairSpec
CHECK_DEADLOCK FALSE
INVARIANT QuietWhileNavigating
INVARIANT PausesKept
PROPERTY ClientsAnswered
