CONSTANTS
  TotalSteps = 5
  Epochs = 4
  Batches = 2
  BatchSize = 2
  SaveFreq = 2
  TestFreq = 2
  Warmups = {0, 2}
  MaxGenBatches = 3
  MaxPrompts = 3
  MaxCrashes = 2
SPECIFICATION Spec
INVARIANTS
  TypeOK
  
  StepsMatchWeights
  ServesNewest
PROPERTIES
  OnPolicy
CHECK_DEADLOCK FALSE
