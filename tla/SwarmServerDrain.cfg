CONSTANTS
  e1 = e1
  c1 = c1
  c2 = c2
  Episodes = {e1}
  Clients = {c1, c2}
  NoClient = NoClient
  Janitor = Janitor
  EpisodeTypes = {"train"}
  Declares = {FALSE}
  MaxResend = 0
SPECIFICATION FairSpec
PROPERTIES
  RollingPostDrains
  JanitorComesBack
CHECK_DEADLOCK FALSE
