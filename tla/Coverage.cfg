SPECIFICATION Spec
CONSTANTS
  NssSeq <- DirectOnly
  Window = 3
  MinWindow = 1
  MinDenom = 1
  MaxBytes = 2
  MaxTime = 2
  MaxEvents = 2
INVARIANTS
  TypeOK
  ResetsNotRepeated
  SpansNoReset
PROPERTIES
  SlidesOverWindow
CHECK_DEADLOCK FALSE
