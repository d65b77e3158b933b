CONSTANTS
  NoCall = NoCall
  NoSave = NoSave
  Calls = {1, 2}
  MaxClaims = 1
  MaxShared = 2
  MaxReverts = 0
  Replies = {"full"}
  Cuttable = {}
  Madness = {}
  CutShort = {}
  MaxMessages = 3
  MaxPrompt = 10
  MaxResponse = 10
  MaxSamples = 2
SPECIFICATION Spec
INVARIANTS
  CompletesNormally
CHECK_DEADLOCK FALSE
