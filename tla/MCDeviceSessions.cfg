CONSTANTS
  c1 = c1
  c2 = c2
  p1 = p1
  p2 = p2
  l1 = l1
  l2 = l2
  Client = {c1, c2}
  Probe = {p1, p2}
  Location = {l1, l2}
  NoProbe = NoProbe
  NoSerial = NoSerial
  NoSheet = NoSheet
  Nobody = Nobody
  MaxPlugs = 1
SPECIFICATION FairSpec
INVARIANTS
  TypeOK
  RegistryIsExact
  ClashHasAReason
  NothingLeftBehind
PROPERTIES
  CallsReturn
  ImplementsLease
