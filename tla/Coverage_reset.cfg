SPECIFICATION Spec
CONSTANTS
  NssSeq <- DirectThenSync
  Window = 3
  MinWindow = 1
  MinDenom = 1
  MaxBytes = 2
  MaxTime = 2
  MaxEvents = 3
INVARIANTS
  ResetDetected
CHECK_DEADLOCK FALSE
