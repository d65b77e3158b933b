CONSTANTS
  c1 = c1
  c2 = c2
  Clients = {c1, c2}
  Methods = {"any", "all"}
  NoEntry = NoEntry
  NoList = NoList
SPECIFICATION FairSpec
INVARIANTS
  TypeOK
  StopIsAgreed
PROPERTIES
  AgreementKept
  AgreementEnds
CHECK_DEADLOCK FALSE
