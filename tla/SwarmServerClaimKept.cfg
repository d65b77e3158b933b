CONSTANTS
  e1 = e1
  c1 = c1
  c2 = c2
  Episodes = {e1}
  Clients = {c1, c2}
  NoClient = NoClient
  Janitor = Janitor
  EpisodeTypes = {"train"}
  Declares = {TRUE, FALSE}
  MaxResend = 0
SPECIFICATION Spec
PROPERTIES
  ClaimKept
CHECK_DEADLOCK FALSE
