SPECIFICATION Spec
CONSTANTS
  m1 = m1
  m2 = m2
  i1 = i1
  i2 = i2
  NoMac = NoMac
  Macs <- TwoMacs
  Ips <- TwoIps
  Configs <- SomeConfigs
  CapsSets <- SomeCaps
  MaxClients = 1
  MaxBytes = 1
  MaxTime = 1
  MaxEvents = 2
SYMMETRY Symmetric
INVARIANTS
  TypeOK
  ConntrackNeedsNss
  BpfIsLastResort
  StatusNamesSource
PROPERTIES
  RatesHonest
CHECK_DEADLOCK FALSE
