\* Two jobs of five kinds, one eviction and one fault.
CONSTANTS
  a = a
  b = b
  None = None
  Contents = {a, b}
  Asked <- MCAsked
  MaxRequests = 2
  MaxEvictions = 1
  MaxTroubles = 1
SPECIFICATION FairCacheSpec
CHECK_DEADLOCK FALSE
INVARIANT ResultsTrue
PROPERTY CacheEmpties
