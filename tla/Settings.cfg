SPECIFICATION FairSpec
CONSTANTS
  Absent = Absent
  Junk = Junk
  s1 = s1
  s2 = s2
  IntWidth = 8192
  Word = 1000000
  Exact = 500000
  Grain = 4
  ExponentFrom = 10000000
  Cap = 2
  Names = {"br-lan", "lan1", "wan"}
  Recommended = {"br-lan", "lan1"}
  Sessions = {s1, s2}
  HandWritten <- Files
  Entries <- Typed
  Selections <- Picked
  MaxSaves = 2
  MaxFailures = 1
INVARIANTS
  ConfigSound
  FormShowsDaemon
  AppliedRuns
PROPERTIES
  ListsChangeWhole
  FileTakesEffect
CHECK_DEADLOCK FALSE
