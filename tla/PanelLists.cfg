\* One history with no version or two, one activity, pages of one version.
SPECIFICATION FairSpec
CONSTANTS
  Docs = {d1}
  NoDocument = d0
  Segments = {s1}
  PageSize = 1
  Earlier = 2
  MaxEvents = 4
INVARIANT PageTrue
PROPERTY PageSettles
CHECK_DEADLOCK FALSE
