SPECIFICATION PollFairSpec
CONSTANTS
  t1 = t1
  t2 = t2
  t3 = t3
  TimerIds = {t1, t2, t3}
  NoTimer = NoTimer
  p1 = p1
  p2 = p2
  p3 = p3
  p4 = p4
  Polls = {p1, p2, p3, p4}
  MaxClicks = 3
  MaxLosses = 1
INVARIANTS
  NoOrphanTimer
  PausedIsQuiet
  LoadBounded
PROPERTIES
  KeepsGoing
  OneLoopRemains
  CatchesUp
CHECK_DEADLOCK FALSE
