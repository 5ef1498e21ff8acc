SPECIFICATION Spec
CONSTANTS
  m1 = m1
  m2 = m2
  a1 = a1
  a2 = a2
  lo = lo
  tv = tv
  pc = pc
  nas = nas
  Budgets <- BudgetChoices
  Macs = {m1, m2}
  Ips = {a1, a2, lo}
  Names = {tv, pc, nas, Nameless}
  IpLists <- Addresses
  LeaseFiles <- WrittenLeases
  HostsFiles <- WrittenHosts
  CacheMax = 3
  RefreshInterval = 3
  Nameless = Nameless
  Loopback = {lo}
  IfaceSeq <- Links
  Width = 16
  PeopleSeq <- Senders
  ActiveWindow = 1
  Window = 3
  Samples = 2
INVARIANTS
  TypeOK
  StaleNamesBounded
  LaterChangeShown
  RatesAreMoved
  WindowShown
PROPERTIES
  ActiveCounted
CHECK_DEADLOCK FALSE
