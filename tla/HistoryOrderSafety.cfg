CONSTANTS
  Contents = {x, y}
  NoContent = NoContent
  Batches = {b1}
  BatchSize = 2
  PageSize = 2
  BaselineWindow = 3
  MaxRows = 4
  MaxAsked = 2
  MaxTroubles = 1
  StaleUnderOrder = FALSE
SPECIFICATION OrderSpec
SYMMETRY Interchangeable
INVARIANT VersionsPlaced
PROPERTY PlansKept
PROPERTY OrderKept
PROPERTY ListConsistent
