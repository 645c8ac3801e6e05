SPECIFICATION FairSpec
CONSTANTS
  None = None
  Target = {g1}
  Poll = {p1}
  Signal = {}
  MaxStream = 1
  MaxRound = 1
  MaxReload = 2
  MaxCrash = 0
  MaxCut = 0
  MaxFail = 1
  MaxDbFail = 1
  g1 = g1
  p1 = p1
PROPERTIES Announced Settles
CHECK_DEADLOCK FALSE
