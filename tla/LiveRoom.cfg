SPECIFICATION Spec
CONSTANTS
  None = None
  Target = {g1}
  Poll = {p1}
  Signal = {s1}
  MaxStream = 2
  MaxRound = 0
  MaxReload = 2
  MaxCrash = 1
  MaxCut = 1
  MaxFail = 1
  MaxDbFail = 0
  g1 = g1
  p1 = p1
  s1 = s1
INVARIANTS TypeOK OncePerBroadcast
PROPERTIES InOrder NoBaselinePush
CONSTRAINTS Sure Within
CHECK_DEADLOCK FALSE
