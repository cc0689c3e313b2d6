SPECIFICATION FairSpec
CHECK_DEADLOCK FALSE
CONSTANTS
  Pages = {p1}
  Viewers <- OnlySeller
  Prices = {1}
  MaxSigs = 2
  MaxLists = 1
PROPERTIES
  StoredGetsPosted
