SPECIFICATION FairSpec
CONSTANTS
  IfaceSeq <- OneIface
  MaxAttached = 4
  ListingShowsObject = FALSE
  MaxEvents = 3
PROPERTIES
  OthersUntouched
CHECK_DEADLOCK FALSE
