\* Four preparations by two handles, a chain of two deltas, one damaged record
\* and one fault; or two saves that compress, one cancellation and one error.
CONSTANTS
  page = page
  first = first
  second = second
  third = third
  Handles = {h1, h2}
  Saves = {s1, s2}
  Metadata <- OnePage
  Chunks <- ThreeChunks
  Layouts <- MCLayouts
  NoHandle = NoHandle
  NoBase = NoBase
  MaxDepth = 2
  MaxSnapshots = 4
  MaxDamage = 1
  MaxFaults = 1
  Size <- MCSize
  Streams <- MCStreams
  Stored <- MCStored
  Policies <- MCPolicies
  CpuBudget = 3
  MemoryBudget = 8
  BatchItems = 3
  BatchBytes = 4
  MinItems = 2
  MinBytes = 2
  Lookahead = 1
  Quota = 4
  MaxCancels = 1
  MaxErrors = 1
SPECIFICATION MCSpec
SYMMETRY SameHandles
INVARIANT VersionsRestorable
INVARIANT NothingLeftOver
INVARIANT RebuildRestores
PROPERTY NeverMadeUnreadable
INVARIANT SharesKept
INVARIANT RecordsTrue
