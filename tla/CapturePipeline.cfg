\* Two captures, three layouts of which two show one drawing, one version from
\* elsewhere, one fault.
CONSTANTS
  a1 = a1
  a2 = a2
  b1 = b1
  Layouts <- MCLayouts
  Drawing <- MCDrawing
  MaxCaptures = 2
  MaxItems = 2
  MaxForeign = 1
  MaxFaults = 1
  NoLayout = NoLayout
  Partial = Partial
  Torn = Torn
SPECIFICATION FairSpec
INVARIANT PublishedOnceInOrder
INVARIANT CopiesKept
INVARIANT VersionsSound
PROPERTY ImplementsLedger
PROPERTY CapturesAnswered
