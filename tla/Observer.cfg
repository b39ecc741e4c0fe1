\* Both ways of saving, two edits, a queue that overflows, a lost connection, a
\* command, and an event that cannot be parsed or a step that fails.
CONSTANTS
  c1 = c1
  QueueSize = 1
  Noise = {"quiet", "gone"}
  Commands = {c1}
  NoCommand = NoCommand
  MaxEdits = 2
  MaxNoise = 1
  MaxFaults = 1
SPECIFICATION FairSpec
CHECK_DEADLOCK FALSE
INVARIANT CommandsTrue
INVARIANT EditsKept
PROPERTY EditsSettle
