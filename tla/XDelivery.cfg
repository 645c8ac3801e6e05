SPECIFICATION FairSpec
CONSTANTS
  None = None
  Group = {g}
  User = {u}
  Check = {c1}
  Task = {t1, t2}
  MaxId = 3
  Body = 2
  Scenario <- Scenarios
  g = g
  u = u
  c1 = c1
  t1 = t1
  t2 = t2
INVARIANTS TypeOK PartOnce
PROPERTIES Queue NoHistory Passes
CHECK_DEADLOCK FALSE
