SPECIFICATION FairSpec
CONSTANTS
  IfaceSeq <- OneIface
  MaxAttached = 4
  ListingShowsObject = FALSE
  MaxEvents = 3
INVARIANTS
  AlreadyPresentIsSuccess
CHECK_DEADLOCK FALSE
