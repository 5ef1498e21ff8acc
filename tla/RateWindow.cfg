SPECIFICATION Spec
CONSTANTS
  KeySeq <- RoamingClient
  Capacity = 3
  RawMax = 6
  MaxFolded = 1
  MaxTraffic = 4
INVARIANTS
  TypeOK
  NoInflatedRate
PROPERTIES
  ReadComplete
CHECK_DEADLOCK FALSE
