SPECIFICATION Spec
CONSTANTS
  None = None
  Target = {g1}
  Poll = {p1}
  Signal = {s1}
  MaxStream = 2
  MaxRound = 0
  MaxReload = 0
  MaxCrash = 1
  MaxCut = 0
  MaxFail = 2
  MaxDbFail = 0
  g1 = g1
  p1 = p1
  s1 = s1
PROPERTY LatestBroadcast
CHECK_DEADLOCK FALSE
