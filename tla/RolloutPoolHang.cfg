CONSTANTS
  w1 = w1
  w2 = w2
  t1 = t1
  t2 = t2
  low = low
  high = high
  c1 = c1
  Workers = {w1, w2}
  Main = Main
  Tasks = {t1, t2}
  Rewards = {low, high}
  Clients = {c1}
  RolloutN = 2
  BatchTasks = 1
  MaxCached = 2
  Methods = {"enough_tasks"}
  MaxEpisodes <- Enough
SPECIFICATION FairSpec
PROPERTIES
  StopLeadsToSync
CHECK_DEADLOCK FALSE
