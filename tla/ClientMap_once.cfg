SPECIFICATION Spec
CONSTANTS
  c1 = c1
  c2 = c2
  tx1 = tx1
  tx2 = tx2
  rx1 = rx1
  e1 = e1
  e2 = e2
  t1 = t1
  t2 = t2
  None = None
  Cpus = {c1, c2}
  TxKeys = {tx1}
  RxKeys = {rx1}
  Elements = {e1, e2}
  Conns = {t1, t2}
  Sender <- TwoSenders
  MaxConns = 2
  MaxFrames = 4
SYMMETRY Symmetry
INVARIANTS
  ConnectionCountedOnce
CHECK_DEADLOCK FALSE
