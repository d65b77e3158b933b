CONSTANTS
  r1 = r1
  r2 = r2
  e1 = e1
  e2 = e2
  NumTasks = 2
  Repeats = {r1, r2}
  BatchSize = 1
  Limit = 1
  MaxGroups = 2
  Episodes = {e1, e2}
  MaxForeign = 1
  NoEpisode = NoEpisode
SPECIFICATION Spec
SYMMETRY Symmetry
INVARIANTS
  TypeOK
  NeverStarved
PROPERTIES
  ThrottleBound
CHECK_DEADLOCK FALSE
