\* Two tabs of the user's, three acts, two faults, three connections; or
\* one agent and one page, in four scenarios (MCBounds).
CONSTANTS
  u1 = u1
  u2 = u2
  Source = Source
  Copy = Copy
  Untitled = {u1, u2}
  Agents = {agent}
  Pages = {page}
  PageSize = 1
  MaxInterval = 2
  Bounds <- MCBounds
  MaxTabs = 2
  MaxActs = 3
  MaxFaults = 2
  MaxConnects = 3
SYMMETRY Interchangeable
SPECIFICATION MCSpec
CHECK_DEADLOCK FALSE
INVARIANT AnswersTrue
INVARIANT OldKept
INVARIANT RefinedOnce
INVARIANT RevisionsTrue
INVARIANT PendingListed
