\* One version, two jobs, two passes of pollJobs and one trouble.
CONSTANTS
  Versions = {v1}
  None = None
  Buttons = {milestone}
  Pending = {milestone}
  Passes = {timer, again}
  MaxJobs = 2
  MaxEvents = 3
  MaxTroubles = 1
SPECIFICATION FairSpec
CHECK_DEADLOCK FALSE
PROPERTY ActionsTold
PROPERTY PreviewSettles
