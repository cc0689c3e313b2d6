SPECIFICATION ReaderSpec
CONSTANTS
  NFields = 4
  Decisive = 3
  UvStates = {0}
  Fills = {59, 90}
  MaxFrames = 3
  MaxBad = 1
INVARIANTS
  HighlightNeverUnderstates
  GradeTellsCard
  RecordedIsPhysical
