CONSTANTS
  e1 = e1
  e2 = e2
  c1 = c1
  Episodes = {e1, e2}
  Clients = {c1}
  NoClient = NoClient
  Janitor = Janitor
  EpisodeTypes = {"train"}
  Declares = {FALSE}
  MaxResend = 0
SPECIFICATION Spec
INVARIANTS
  QueueExact
PROPERTIES
  PoolRefinement
SYMMETRY Symmetry
CHECK_DEADLOCK FALSE
