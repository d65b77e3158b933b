CONSTANTS
  NoCall = NoCall
  NoSave = NoSave
  Calls = {1, 2, 3}
  MaxClaims = 2
  MaxShared = 2
  MaxReverts = 2
  Replies = {"full", "cut"}
  Cuttable = {2}
  Madness = {1}
  CutShort = {"cut"}
  MaxMessages = 3
  MaxPrompt = 10
  MaxResponse = 10
  MaxSamples = 2
SPECIFICATION Spec
INVARIANTS
  TypeOK
  TrainedOnce
  MergeSound
  MaskExact
  SampleComplete
  RewardsAligned
  AnswersKept
  ResetTakesClaim
  OwnersOnly
CHECK_DEADLOCK FALSE
