\* Two projects that share a window, which may come back: two coordinators for
\* each; one disturbance of any kind.
CONSTANTS
  alpha = alpha
  beta = beta
  left = left
  right = right
  chip = chip
  Projects = {alpha, beta}
  Windows = {left}
  Saved = {chip}
  Untitled = Untitled
  None = None
  Eligible <- MCEligible
  MaxCoordinators = 4
  MaxReturns = 1
  MaxHangs = 1
  MaxFaults = 1
  MaxSwitches = 1
  MaxToggles = 1
  MaxTogether = 1
SPECIFICATION LiveSpec
CHECK_DEADLOCK FALSE
INVARIANT OneEach
INVARIANT NothingLeftUntilHang
PROPERTY TakesOver
