SPECIFICATION Spec
CONSTANTS
  None = None
  Target = {g1}
  Poll = {p1, p2}
  Signal = {}
  MaxStream = 1
  MaxRound = 0
  MaxReload = 0
  MaxCrash = 0
  MaxCut = 0
  MaxFail = 0
  MaxDbFail = 0
  g1 = g1
  p1 = p1
  p2 = p2
INVARIANT OnceWhenAnswered
CHECK_DEADLOCK FALSE
