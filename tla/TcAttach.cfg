SPECIFICATION FairSpec
CONSTANTS
  IfaceSeq <- TwoIfaces
  MaxAttached = 6
  ListingShowsObject = TRUE
  MaxEvents = 3
INVARIANTS
  TypeOK
  ModesExclusive
  WindowIntact
  CleanStop
PROPERTIES
  HooksRestored
  PolicyConverges
CHECK_DEADLOCK FALSE
