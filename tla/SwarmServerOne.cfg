CONSTANTS
  e1 = e1
  c1 = c1
  c2 = c2
  Episodes = {e1}
  Clients = {c1, c2}
  NoClient = NoClient
  Janitor = Janitor
  EpisodeTypes = {"train", "eval"}
  Declares = {TRUE, FALSE}
  MaxResend = 1
SPECIFICATION Spec
INVARIANTS
  TypeOK
  NoLostEpisode
  RecordHasRunner
  FinishedIsFinal
  TrainingStartsClean
SYMMETRY Symmetry
CHECK_DEADLOCK FALSE
