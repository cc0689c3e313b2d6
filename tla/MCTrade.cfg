SPECIFICATION Spec
CHECK_DEADLOCK FALSE
CONSTANTS
  Pages = {p1}
  Viewers <- SomeViewers
  Prices = {1, 2}
  MaxSigs = 2
  MaxLists = 1
INVARIANTS
  OfferedMatchesProgram
  ReservedAtShownPrice
PROPERTIES
  UnpostedKept
