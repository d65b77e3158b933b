CONSTANTS
  c1 = c1
  c2 = c2
  r1 = r1
  r2 = r2
  Clients = {c1, c2}
  Runs = {r1, r2}
  NoClient = NoClient
  NoRun = NoRun
SPECIFICATION FairSpec
INVARIANTS
  TypeOK
  OneTrainer
  ConfigFrozen
  StatusTruthful
PROPERTIES
  BootingEnds
CHECK_DEADLOCK FALSE
